---- MODULE Spec2Model ----
(***************************************************************************)
(* Model of the trip planner of "Assignment 4 Travel Planner":             *)
(* plan_trip and the cost estimation it drives                             *)
(* (get_comprehensive_cost_analysis, estimate_daily_costs and the          *)
(* adapters they call), with the handler of the plan button around it      *)
(* (Spec); the budget split of plan_trip and of the                        *)
(* calculate_budget_breakdown tool on inputs of their own (SpecBudget);    *)
(* the exchange rate of plan_trip (SpecExchange) and the two date loops    *)
(* of its weather section (SpecWeather, SpecWeatherFair); the DuckDuckGo   *)
(* search with its timeout thread and retries, as                          *)
(* get_local_insights_duckduckgo drives it (SpecSearch, SpecSearchFair);   *)
(* and the agent loop of EnhancedTravelPlanner.plan_trip_enhanced          *)
(* (SpecAgent, SpecAgentFair).                                             *)
(*                                                                         *)
(* Numbers.  The program computes with Python floats.  The model computes  *)
(* with exact rationals [n |-> numerator, d |-> denominator] in dollars,   *)
(* and round(x, 2) yields an integer number of cents, a tie going to the   *)
(* even cent.  Every amount the program stores after round(x, 2) is held   *)
(* in cents.  Where the last bit of a float matters, estimate_daily_costs  *)
(* is computed a second time with floats of 53 bits (SpecFloat).           *)
(***************************************************************************)
EXTENDS Integers, Sequences, FiniteSets, TLC

\* ---------------------------------------------------------------- bounds
\* Dates are day numbers 1..MaxDay, travellers 0..MaxPeople.
MaxDay == 5
MaxPeople == 2

\* ------------------------------------------------------------ rationals
\* Kept in lowest terms, with a positive denominator.
RECURSIVE gcd(_, _)
gcd(a, b) == IF b = 0 THEN a ELSE gcd(b, a % b)
abs(a) == IF a < 0 THEN -a ELSE a
Q(n, d) ==
    LET g == gcd(abs(n), d)
    IN  [n |-> n \div g, d |-> d \div g]
QInt(i) == Q(i, 1)
QAdd(a, b) == Q(a.n * b.d + b.n * a.d, a.d * b.d)
QMul(a, b) == Q(a.n * b.n, a.d * b.d)
QLess(a, b) == a.n * b.d < b.n * a.d
QMin(a, b) == IF QLess(b, a) THEN b ELSE a
QMax(a, b) == IF QLess(a, b) THEN b ELSE a

\* round(x, 2): the amount x in cents, rounded to the nearest cent.
round2(x) ==
    LET num == 100 * x.n
        q == num \div x.d
        r == num % x.d
    IN  IF 2 * r < x.d THEN q
        ELSE IF 2 * r > x.d THEN q + 1
        ELSE IF q % 2 = 0 THEN q ELSE q + 1

\* Python's None, and dict.get(key, default).
None == [none |-> TRUE]
Get(dict, key, default) == IF key \in DOMAIN dict THEN dict[key] ELSE default

\* --------------------------------------------------------------- inputs
CityInputs == {"", "Paris", " PARIS ", "Atlantis"}

\* The characters of the texts of the model: what the user typed, and the
\* keys of the cost tables.
Characters ==
    ("" :> <<>>) @@
    ("Paris" :> <<"P", "a", "r", "i", "s">>) @@
    (" PARIS " :> <<" ", "P", "A", "R", "I", "S", " ">>) @@
    (" paris " :> <<" ", "p", "a", "r", "i", "s", " ">>) @@
    ("PARIS" :> <<"P", "A", "R", "I", "S">>) @@
    ("paris" :> <<"p", "a", "r", "i", "s">>) @@
    ("Atlantis" :> <<"A", "t", "l", "a", "n", "t", "i", "s">>) @@
    ("atlantis" :> <<"a", "t", "l", "a", "n", "t", "i", "s">>)
\* The text with these characters.
Text(chars) == CHOOSE t \in DOMAIN Characters : Characters[t] = chars

\* str.lower, a character at a time.
LowerCase ==
    ("A" :> "a") @@ ("I" :> "i") @@ ("P" :> "p") @@ ("R" :> "r") @@
    ("S" :> "s")
lower(chars) ==
    [i \in 1..Len(chars) |->
        IF chars[i] \in DOMAIN LowerCase THEN LowerCase[chars[i]]
        ELSE chars[i]]

\* str.strip: the leading and the trailing whitespace removed.
Whitespace == {" "}
RECURSIVE lstrip(_)
lstrip(chars) ==
    IF chars # <<>> /\ Head(chars) \in Whitespace THEN lstrip(Tail(chars))
    ELSE chars
RECURSIVE rstrip(_)
rstrip(chars) ==
    IF chars # <<>> /\ chars[Len(chars)] \in Whitespace
    THEN rstrip(SubSeq(chars, 1, Len(chars) - 1))
    ELSE chars
strip(chars) == rstrip(lstrip(chars))

\* The lookup key without the strip.
city_lower_unstripped(c) == Text(lower(Characters[c]))

\* text.lower().strip(), for every text of the model.
lower_strip == [t \in DOMAIN Characters |-> Text(strip(lower(Characters[t])))]

\* city.lower().strip()
city_lower(c) == lower_strip[c]
\* A date field is empty, unparseable, or a text that parses to a day.
DateInputs ==
    {[text |-> ""], [text |-> "not-a-date"]}
        \cup {[text |-> "YYYY-MM-DD", day |-> k] : k \in 1..MaxDay}
PeopleInputs == 0..MaxPeople
BudgetInputs == {0, 100, 1000}
CurrencyInputs == {"", "EUR", "XYZ"}

VARIABLES
    city, start_date, end_date, num_people, trip_budget, currency_code,
    pc, num_days, calls, forecast, exchange_rate, exchange_source,
    cost_analysis, daily_costs, data_sources, adjustment_factor,
    sources_returned, result, budget_summary, budget_plan,
    tool_args, tool_result, hotel_search, returned, ui_outputs,
    search_pc, max_retries, attempt, thread,
    result0, exception0, search_log, retry_result, abandoned,
    query, local_insights, stale_results,
    agent_pc, max_iterations, steps, messages, llm_calls, summary_messages,
    enhanced_return, rate_lookups,
    current_date, fallback_forecast, forecast_days, weather_info

vars == <<city, start_date, end_date, num_people, trip_budget, currency_code,
          pc, num_days, calls, forecast, exchange_rate, exchange_source,
          cost_analysis, daily_costs, data_sources, adjustment_factor,
          sources_returned, result, budget_summary, budget_plan,
          tool_args, tool_result, hotel_search, returned, ui_outputs,
          search_pc, max_retries, attempt, thread,
          result0, exception0, search_log, retry_result, abandoned,
          query, local_insights, stale_results,
          agent_pc, max_iterations, steps, messages, llm_calls,
          summary_messages, enhanced_return, rate_lookups,
          current_date, fallback_forecast, forecast_days, weather_info>>

\* The state of a call of the calculate_budget_breakdown tool.
tool_vars == <<tool_args, tool_result>>

\* The state of get_local_insights_duckduckgo and of the call of
\* search_duckduckgo_with_retry it is in: the caller's position, the
\* attempt of the retry loop, the worker thread of the current
\* search_with_timeout with its result[0] and exception[0], what each call
\* of search_duckduckgo came to for this query, the list returned at the
\* end, the number of worker threads left running by a timeout, the query
\* the adapter is at and the queries it has insights for, and what the
\* threads left running have written since to the cells of their own calls.
search_vars == <<search_pc, max_retries, attempt, thread, result0, exception0,
                 search_log, retry_result, abandoned, query, local_insights,
                 stale_results>>

\* No search is under way.
NoSearch ==
    /\ search_pc = "idle"
    /\ max_retries = 0
    /\ attempt = 0
    /\ thread = "none"
    /\ result0 = None
    /\ exception0 = None
    /\ search_log = <<>>
    /\ retry_result = None
    /\ abandoned = 0
    /\ query = 1
    /\ local_insights = {}
    /\ stale_results = {}

\* The state of a call of EnhancedTravelPlanner.plan_trip_enhanced: where
\* it is (the node of the graph that runs next, the final check, the
\* fallback, or how it ended), its max_iterations, the steps the graph has
\* run, the messages of the graph's state, the calls of the LLM made so
\* far, the messages of the summary call and what the call returned.
agent_vars == <<agent_pc, max_iterations, steps, messages, llm_calls,
                summary_messages, enhanced_return>>

\* No call of the enhanced planner is under way.
NoAgent ==
    /\ agent_pc = "idle"
    /\ max_iterations = 0
    /\ steps = 0
    /\ messages = <<>>
    /\ llm_calls = 0
    /\ summary_messages = <<>>
    /\ enhanced_return = None

\* The locals of plan_trip's two date loops: the date either loop is at,
\* the forecast the first loop builds when the provider gave none, and the
\* counter and the text of the second.
weather_vars == <<current_date, fallback_forecast, forecast_days, weather_info>>

\* Neither date loop has run.
NoWeather ==
    /\ current_date = 0
    /\ fallback_forecast = None
    /\ forecast_days = 0
    /\ weather_info = <<>>

inputs == <<city, start_date, end_date, num_people, trip_budget, currency_code>>

Init ==
    /\ city \in CityInputs
    /\ start_date \in DateInputs
    /\ end_date \in DateInputs
    /\ num_people \in PeopleInputs
    /\ trip_budget \in BudgetInputs
    /\ currency_code \in CurrencyInputs
    /\ pc = "validate"
    /\ num_days = 0
    /\ calls = {}
    /\ forecast = None
    /\ exchange_rate = None
    /\ exchange_source = ""
    /\ cost_analysis = None
    /\ daily_costs = None
    /\ data_sources = <<>>
    /\ adjustment_factor = None
    /\ sources_returned = {}
    /\ result = ""
    /\ budget_summary = None
    /\ budget_plan = None
    /\ tool_args = None
    /\ tool_result = None
    /\ hotel_search = None
    /\ returned = <<>>
    /\ ui_outputs = <<>>
    /\ rate_lookups = None
    /\ NoWeather
    /\ NoSearch
    /\ NoAgent

\* ------------------------------------------------ 1-2. input validation
\* date_parser.parse(text).date() succeeds.
Parses(d) == "day" \in DOMAIN d

\* An error return cut down to its message.
error_return_bare(message) == <<message>>

\* The tuple plan_trip returns with a message and nothing else.
error_return(message) == <<message, "", "", "", "", "">>

MsgMissing == "Please fill out all required inputs."
MsgBadDates == "Please enter valid dates in YYYY-MM-DD format (e.g., 2024-06-15)."
MsgWindow == "End date must be after start date."
ValidationMessages == {MsgMissing, MsgBadDates, MsgWindow}

\* The validation without its comparison of the two dates.
validation_without_window(c, s, e, n, b, cur) ==
    IF c = "" \/ s.text = "" \/ e.text = "" \/ n = 0 \/ b = 0 \/ cur = ""
    THEN MsgMissing
    ELSE IF ~(Parses(s) /\ Parses(e)) THEN MsgBadDates
    ELSE ""

\* The message plan_trip returns from its validation, or "" when the
\* request is accepted.
validation(c, s, e, n, b, cur) ==
    IF c = "" \/ s.text = "" \/ e.text = "" \/ n = 0 \/ b = 0 \/ cur = ""
    THEN MsgMissing
    ELSE IF ~(Parses(s) /\ Parses(e)) THEN MsgBadDates
    ELSE IF e.day < s.day THEN MsgWindow
    ELSE ""

InputValidation ==
    /\ pc = "validate"
    /\ LET msg == validation(city, start_date, end_date, num_people,
                             trip_budget, currency_code)
       IN  IF msg # ""
           THEN /\ result' = msg
                /\ returned' = error_return(msg)
                /\ pc' = "done"
                /\ UNCHANGED num_days
           ELSE /\ num_days' = (end_date.day - start_date.day) + 1
                /\ pc' = "weather"
                /\ UNCHANGED <<result, returned>>
    /\ UNCHANGED <<inputs, calls, forecast, exchange_rate, exchange_source,
                   cost_analysis, daily_costs, data_sources,
                   adjustment_factor, budget_summary,
                   sources_returned, budget_plan, tool_vars, hotel_search,
                   ui_outputs,
                   search_vars, agent_vars, rate_lookups, weather_vars>>

\* ------------------------------------------- 3. data fetching, fallbacks
\* get_weather_forecast: None, or a dict keyed by the days the provider
\* covers (here the first two days of the calendar).
ForecastOutcomes == {None, [days |-> {1, 2}]}

\* The forecast plan_trip goes on with: the provider's, or one fallback
\* line for every day of the trip when the provider gave nothing.
trip_forecast(fc, s, e) ==
    IF fc = None
    THEN [days |-> {k \in 1..MaxDay : s.day <= k /\ k <= e.day}]
    ELSE fc

WeatherFetch ==
    /\ pc = "weather"
    /\ \E fc \in ForecastOutcomes :
           forecast' = trip_forecast(fc, start_date, end_date)
    /\ calls' = calls \cup {"get_current_weather", "get_weather_forecast"}
    /\ pc' = "exchange"
    /\ UNCHANGED <<inputs, num_days, exchange_rate, exchange_source,
                   cost_analysis, daily_costs, data_sources,
                   adjustment_factor, result, budget_summary,
                   sources_returned, budget_plan, tool_vars, hotel_search,
                   returned, ui_outputs,
                   search_vars, agent_vars, rate_lookups, weather_vars>>

\* get_currency_exchange_duckduckgo and get_exchange_rate: None or a rate.
\* The search may also find a rate of 0, which counts as none found.
DuckduckgoRateOutcomes == {None, Q(0, 1), Q(93, 100)}
ApiRateOutcomes == {None, Q(92, 100)}

\* str.upper of a currency code.
UpperCase == ("eur" :> "EUR") @@ ("inr" :> "INR") @@ ("xyz" :> "XYZ")
upper(code) == IF code \in DOMAIN UpperCase THEN UpperCase[code] ELSE code

\* The rates of the major currencies.
fallback_table ==
    ("INR" :> Q(83, 1)) @@ ("EUR" :> Q(92, 100)) @@ ("GBP" :> Q(79, 100)) @@
    ("JPY" :> Q(150, 1)) @@ ("CAD" :> Q(135, 100)) @@ ("AUD" :> Q(152, 100)) @@
    ("CHF" :> Q(88, 100)) @@ ("CNY" :> Q(72, 10))

\* fallback_rates.get(currency_code.upper(), 1.0)
fallback_rates(cur) == Get(fallback_table, upper(cur), Q(1, 1))

\* "if duckduckgo_rate:": a rate was found, and it is not 0.
truthy(rate) == rate # None /\ rate # Q(0, 1)

\* The chain that leaves the label of the API on a fallback rate.
exchange_unlabelled(ddg, api, cur) ==
    IF truthy(ddg)
    THEN [rate |-> ddg, source |-> "DuckDuckGo real-time search"]
    ELSE IF api # None
    THEN [rate |-> api, source |-> "Exchange Rate API"]
    ELSE [rate |-> fallback_rates(cur), source |-> "Exchange Rate API"]

\* The exchange rate and its source label, from the two online outcomes.
exchange(ddg, api, cur) ==
    IF truthy(ddg)
    THEN [rate |-> ddg, source |-> "DuckDuckGo real-time search"]
    ELSE IF api # None
    THEN [rate |-> api, source |-> "Exchange Rate API"]
    ELSE [rate |-> fallback_rates(cur), source |-> "Fallback estimate"]

ExchangeRateFetch ==
    /\ pc = "exchange"
    /\ \E ddg \in DuckduckgoRateOutcomes :
           IF truthy(ddg)
           THEN /\ exchange_rate' = exchange(ddg, None, currency_code).rate
                /\ exchange_source' = exchange(ddg, None, currency_code).source
                /\ calls' = calls \cup {"get_currency_exchange_duckduckgo"}
           ELSE \E api \in ApiRateOutcomes :
                /\ exchange_rate' = exchange(ddg, api, currency_code).rate
                /\ exchange_source' = exchange(ddg, api, currency_code).source
                /\ calls' = calls \cup {"get_currency_exchange_duckduckgo",
                                        "get_exchange_rate"}
    /\ pc' = "itinerary"
    /\ UNCHANGED <<inputs, num_days, forecast, cost_analysis, daily_costs,
                   data_sources, adjustment_factor, result, budget_summary,
                   sources_returned, budget_plan, tool_vars, hotel_search,
                   returned, ui_outputs,
                   search_vars, agent_vars, rate_lookups, weather_vars>>

\* ------------------------------------------------ 4. budget calculation
\* The split with 10% for leisure.
budget_calculation_short(total, days) ==
    LET accommodation_budget == QMul(QInt(total), Q(5, 10))
        per_night_budget == QMul(accommodation_budget, Q(1, days))
    IN  [accommodation_budget |-> accommodation_budget,
         per_night_budget |-> per_night_budget,
         lower_bound |-> QMul(per_night_budget, Q(9, 10)),
         upper_bound |-> QMul(per_night_budget, Q(11, 10)),
         food_budget |-> QMul(QInt(total), Q(2, 10)),
         travel_budget |-> QMul(QInt(total), Q(1, 10)),
         leisure_budget |-> QMul(QInt(total), Q(1, 10))]

\* The locals of plan_trip's budget calculation, in dollars.
budget_calculation(total, days) ==
    LET accommodation_budget == QMul(QInt(total), Q(5, 10))
        per_night_budget == QMul(accommodation_budget, Q(1, days))
    IN  [accommodation_budget |-> accommodation_budget,
         per_night_budget |-> per_night_budget,
         lower_bound |-> QMul(per_night_budget, Q(9, 10)),
         upper_bound |-> QMul(per_night_budget, Q(11, 10)),
         food_budget |-> QMul(QInt(total), Q(2, 10)),
         travel_budget |-> QMul(QInt(total), Q(1, 10)),
         leisure_budget |-> QMul(QInt(total), Q(2, 10))]

\* ------------------------------------------- 5. AI itinerary generation
\* orchestrate_itinerary has no handler of its own: when the LLM call
\* raises, plan_trip's outer handler returns the error text.
MsgError == "Error planning trip: ..."

ItineraryGeneration ==
    /\ pc = "itinerary"
    /\ budget_plan' = budget_calculation(trip_budget, num_days)
    /\ calls' = calls \cup {"orchestrate_itinerary"}
    /\ \E raised \in BOOLEAN :
           IF raised
           THEN /\ result' = MsgError
                /\ returned' = error_return(MsgError)
                /\ pc' = "done"
           ELSE /\ UNCHANGED <<result, returned>>
                /\ pc' = "costs"
    /\ UNCHANGED <<inputs, num_days, forecast, exchange_rate, exchange_source,
                   cost_analysis, daily_costs, data_sources,
                   adjustment_factor, budget_summary,
                   sources_returned, tool_vars, hotel_search, ui_outputs,
                   search_vars, agent_vars, rate_lookups, weather_vars>>

\* ------------------------------------------------- static cost tables
\* base_estimates of estimate_daily_costs, per person per day in USD.
base_estimates ==
    ("dubai" :> [accommodation |-> 120, food |-> 40]) @@
    ("london" :> [accommodation |-> 150, food |-> 50]) @@
    ("new york" :> [accommodation |-> 180, food |-> 60]) @@
    ("paris" :> [accommodation |-> 140, food |-> 45]) @@
    ("tokyo" :> [accommodation |-> 130, food |-> 35]) @@
    ("singapore" :> [accommodation |-> 140, food |-> 40]) @@
    ("bangkok" :> [accommodation |-> 60, food |-> 20]) @@
    ("bali" :> [accommodation |-> 80, food |-> 25]) @@
    ("mumbai" :> [accommodation |-> 70, food |-> 15]) @@
    ("delhi" :> [accommodation |-> 65, food |-> 15]) @@
    ("bangalore" :> [accommodation |-> 75, food |-> 18]) @@
    ("chennai" :> [accommodation |-> 60, food |-> 15]) @@
    ("kolkata" :> [accommodation |-> 55, food |-> 12]) @@
    ("hyderabad" :> [accommodation |-> 65, food |-> 16]) @@
    ("pune" :> [accommodation |-> 60, food |-> 15])

\* transport_estimates of get_transport_costs_api, per person per day.
transport_estimates ==
    ("dubai" :> 25) @@ ("london" :> 15) @@ ("new york" :> 12) @@
    ("paris" :> 8) @@ ("tokyo" :> 10) @@ ("singapore" :> 8) @@
    ("bangkok" :> 5) @@ ("bali" :> 8) @@ ("mumbai" :> 3) @@ ("delhi" :> 3) @@
    ("bangalore" :> 4) @@ ("chennai" :> 3) @@ ("kolkata" :> 3) @@
    ("hyderabad" :> 4) @@ ("pune" :> 3)

\* ------------------------------------------------ estimate_daily_costs
\* The adjustment without its caps of 2.0 and 0.5.
adjustment_uncapped(budget_per_day, total_daily_cost) ==
    LET total == QInt(total_daily_cost)
        ratio == Q(budget_per_day.n, budget_per_day.d * total_daily_cost)
    IN  IF QLess(QMul(total, Q(15, 10)), budget_per_day) THEN ratio
        ELSE IF QLess(budget_per_day, QMul(total, Q(7, 10))) THEN ratio
        ELSE None

\* The adjustment scaling down only below half of the estimate.
adjustment_late(budget_per_day, total_daily_cost) ==
    LET total == QInt(total_daily_cost)
        ratio == Q(budget_per_day.n, budget_per_day.d * total_daily_cost)
    IN  IF QLess(QMul(total, Q(15, 10)), budget_per_day)
        THEN QMin(ratio, Q(2, 1))
        ELSE IF QLess(budget_per_day, QMul(total, Q(5, 10)))
        THEN QMax(ratio, Q(1, 2))
        ELSE None

\* The adjustment with min in place of max when scaling down.
adjustment_min(budget_per_day, total_daily_cost) ==
    LET total == QInt(total_daily_cost)
        ratio == Q(budget_per_day.n, budget_per_day.d * total_daily_cost)
    IN  IF QLess(QMul(total, Q(15, 10)), budget_per_day)
        THEN QMin(ratio, Q(2, 1))
        ELSE IF QLess(budget_per_day, QMul(total, Q(7, 10)))
        THEN QMin(ratio, Q(1, 2))
        ELSE None

\* The budget-level adjustment: the factor both categories are multiplied
\* by, or None when neither branch is taken and nothing is multiplied.
adjustment(budget_per_day, total_daily_cost) ==
    LET total == QInt(total_daily_cost)
        ratio == Q(budget_per_day.n, budget_per_day.d * total_daily_cost)
    IN  IF QLess(QMul(total, Q(15, 10)), budget_per_day)
        THEN QMin(ratio, Q(2, 1))
        ELSE IF QLess(budget_per_day, QMul(total, Q(7, 10)))
        THEN QMax(ratio, Q(1, 2))
        ELSE None

\* x *= adjustment_factor, when a factor was computed.
scaled(x, factor) == IF factor = None THEN QInt(x) ELSE QMul(QInt(x), factor)

\* estimate_daily_costs(city, trip_budget, num_days, num_people).  Its
\* handler for exceptions cannot run on the numbers plan_trip passes
\* (num_days >= 1, num_people >= 1), so it has no counterpart here.
estimate_daily_costs(c, budget, days, n) ==
    LET key == city_lower(c)
        estimates == IF key \in DOMAIN base_estimates
                     THEN base_estimates[key]
                     ELSE [accommodation |-> 100, food |-> 30]
        daily_accommodation == estimates.accommodation * n
        daily_food == estimates.food * n
        total_daily_cost == daily_accommodation + daily_food
        budget_per_day == Q(budget, days)
        factor == adjustment(budget_per_day, total_daily_cost)
        acc == scaled(daily_accommodation, factor)
        food == scaled(daily_food, factor)
    IN  [daily_accommodation |-> round2(acc),
         daily_food |-> round2(food),
         total_daily |-> round2(QAdd(acc, food)),
         city_known |-> key \in DOMAIN base_estimates]

\* The adjustment_factor local of that call.
estimate_factor(c, budget, days, n) ==
    LET key == city_lower(c)
        estimates == IF key \in DOMAIN base_estimates
                     THEN base_estimates[key]
                     ELSE [accommodation |-> 100, food |-> 30]
    IN  adjustment(Q(budget, days),
                   estimates.accommodation * n + estimates.food * n)

\* ------------------------------------------------------- cost adapters
\* get_real_time_costs_llm: None, the JSON object asked for, or a JSON
\* object without the keys asked for.
LlmData ==
    [accommodation_per_night |-> Q(90, 1), food_per_day |-> Q(25, 1),
     transport_per_day |-> Q(12, 1)]
LlmMalformed == [source_notes |-> "no estimate"]
LlmOutcomes == {None, LlmData, LlmMalformed}

\* get_hotel_prices_api: None, or the average of the prices found.
HotelOutcomes == {None, [average_price |-> Q(361, 3)]}

\* get_google_places(city, "restaurant"): a list of places, each with an
\* estimated_cost: <<>> for 'N/A', <<c>> for a cost of c.
PlacesOutcomes ==
    {<<>>, << <<>> >>, << <<15>>, <<30>> >>, << <<15>>, <<>>, <<30>> >>}

RECURSIVE total_cost(_)
total_cost(places) ==
    IF places = <<>> THEN 0
    ELSE (IF Head(places) = <<>> THEN 0 ELSE Head(places)[1])
         + total_cost(Tail(places))

valid_restaurants(places) ==
    Cardinality({i \in 1..Len(places) : places[i] # <<>>})

get_food_costs_api(places) ==
    IF places # <<>> /\ valid_restaurants(places) > 0
    THEN LET avg_meal_cost == Q(total_cost(places), valid_restaurants(places))
         IN  [average_meal_cost |-> avg_meal_cost,
              daily_food_cost |-> QMul(avg_meal_cost, QInt(3)),
              restaurant_count |-> valid_restaurants(places)]
    ELSE None

get_transport_costs_api(c) ==
    IF city_lower(c) \in DOMAIN transport_estimates
    THEN [daily_transport_cost |-> transport_estimates[city_lower(c)]]
    ELSE [daily_transport_cost |-> 8]

\* ------------------------------------ get_comprehensive_cost_analysis
\* The accommodation fallback with its sign slipped.
accommodation_cost_negative(hotel_prices, llm_estimates, n) ==
    IF hotel_prices # None THEN hotel_prices.average_price
    ELSE IF llm_estimates # None THEN llm_estimates.accommodation_per_night
    ELSE QInt(0 - 100 * n)

\* The accommodation fallback of one room whatever the party.
accommodation_cost_per_room(hotel_prices, llm_estimates, n) ==
    IF hotel_prices # None THEN hotel_prices.average_price
    ELSE IF llm_estimates # None THEN llm_estimates.accommodation_per_night
    ELSE QInt(100)

accommodation_cost(hotel_prices, llm_estimates, n) ==
    IF hotel_prices # None THEN hotel_prices.average_price
    ELSE IF llm_estimates # None THEN llm_estimates.accommodation_per_night
    ELSE QInt(100 * n)

food_cost(food_costs, llm_estimates, n) ==
    IF food_costs # None THEN QMul(food_costs.daily_food_cost, QInt(n))
    ELSE IF llm_estimates # None
    THEN QMul(llm_estimates.food_per_day, QInt(n))
    ELSE QInt(30 * n)

transport_cost(transport_costs, llm_estimates, n) ==
    IF transport_costs # None
    THEN QInt(transport_costs.daily_transport_cost * n)
    ELSE IF llm_estimates # None
    THEN QMul(llm_estimates.transport_per_day, QInt(n))
    ELSE QInt(8 * n)

\* A key of llm_estimates is read and is not there: the KeyError that the
\* function's handler turns into a None result.
key_error(hotel_prices, food_costs, transport_costs, llm_estimates) ==
    /\ llm_estimates # None
    /\ \/ hotel_prices = None
          /\ "accommodation_per_night" \notin DOMAIN llm_estimates
       \/ food_costs = None /\ "food_per_day" \notin DOMAIN llm_estimates
       \/ transport_costs = None
          /\ "transport_per_day" \notin DOMAIN llm_estimates

\* The tracking that lists the LLM only when one of its estimates was used.
tracked_sources_used(hotel_prices, food_costs, llm_estimates) ==
    (IF hotel_prices # None THEN <<"Real hotel prices">> ELSE <<>>)
    \o (IF food_costs # None THEN <<"Restaurant price analysis">> ELSE <<>>)
    \o (IF llm_estimates # None /\ (hotel_prices = None \/ food_costs = None)
        THEN <<"LLM research">> ELSE <<>>)

\* "Track data sources"
tracked_sources(hotel_prices, food_costs, llm_estimates) ==
    (IF hotel_prices # None THEN <<"Real hotel prices">> ELSE <<>>)
    \o (IF food_costs # None THEN <<"Restaurant price analysis">> ELSE <<>>)
    \o (IF llm_estimates # None THEN <<"LLM research">> ELSE <<>>)

\* get_fallback_insights(city): for every city, known or not, both insight
\* dictionaries are non-empty.
get_fallback_insights(c) == [local_insights |-> TRUE, weather_insights |-> TRUE]

\* What get_local_insights_duckduckgo and get_weather_insights_duckduckgo
\* found: whether each dictionary is non-empty.
InsightOutcomes ==
    {[local_insights |-> FALSE, weather_insights |-> FALSE],
     [local_insights |-> TRUE, weather_insights |-> FALSE]}

\* enhance_cost_analysis_with_duckduckgo.  local and weather tell whether
\* the searches gave any insight.  The copy is shallow: the tag is appended
\* to the data_sources list of the final_estimates it was given.
enhance_cost_analysis_with_duckduckgo(c, analysis, local, weather) ==
    LET searched == [local_insights |-> local, weather_insights |-> weather]
        insights == IF ~local /\ ~weather THEN get_fallback_insights(c)
                    ELSE searched
        tag == IF insights.local_insights \/ insights.weather_insights
               THEN "DuckDuckGo real-time search"
               ELSE "Fallback insights"
    IN  [analysis EXCEPT
            !.duckduckgo_insights = insights,
            !.final_estimates.data_sources = Append(@, tag)]

\* The results of get_comprehensive_cost_analysis from its adapters'
\* outcomes: None when the body raised.
get_comprehensive_cost_analysis(c, days, n, llm_estimates, hotel_prices, food_costs, local, weather) ==
    LET transport_costs == get_transport_costs_api(c)
        acc == accommodation_cost(hotel_prices, llm_estimates, n)
        food == food_cost(food_costs, llm_estimates, n)
        transport == transport_cost(transport_costs, llm_estimates, n)
        total_daily == QAdd(QAdd(acc, food), transport)
    IN  IF key_error(hotel_prices, food_costs, transport_costs, llm_estimates)
        THEN None
        ELSE enhance_cost_analysis_with_duckduckgo(c,
                [llm_estimates |-> llm_estimates,
                 hotel_prices |-> hotel_prices,
                 food_costs |-> food_costs,
                 transport_costs |-> transport_costs,
                 duckduckgo_insights |-> None,
                 final_estimates |->
                    [accommodation_per_night |-> round2(acc),
                     food_per_day |-> round2(food),
                     transport_per_day |-> round2(transport),
                     total_per_day |-> round2(total_daily),
                     total_trip_cost |-> round2(QMul(total_daily, QInt(days))),
                     data_sources |->
                        tracked_sources(hotel_prices, food_costs,
                                        llm_estimates)]],
                local, weather)

CostAdapters ==
    {"get_real_time_costs_llm", "get_hotel_prices_api", "get_food_costs_api",
     "get_transport_costs_api", "get_cost_of_living_api"}

\* ---------------------------------- 6. real-time cost analysis (446-456)
\* The cost adapters that returned data to get_comprehensive_cost_analysis,
\* whether or not it went on to raise.
returned_sources(llm_estimates, hotel_prices, food_costs) ==
    (IF hotel_prices # None THEN {"get_hotel_prices_api"} ELSE {})
    \cup (IF food_costs # None THEN {"get_food_costs_api"} ELSE {})
    \cup (IF llm_estimates # None THEN {"get_real_time_costs_llm"} ELSE {})

\* The outcome of get_cost_of_living_api is stored by the program and never
\* read; the model records the call alone.
CostAnalysis ==
    /\ pc = "costs"
    /\ \E llm \in LlmOutcomes, hotel \in HotelOutcomes,
          places \in PlacesOutcomes, found \in InsightOutcomes :
          LET analysis ==
                  get_comprehensive_cost_analysis(city, num_days, num_people,
                      llm, hotel, get_food_costs_api(places),
                      found.local_insights, found.weather_insights)
          IN  /\ cost_analysis' = analysis
              /\ sources_returned' =
                    returned_sources(llm, hotel, get_food_costs_api(places))
              /\ IF analysis # None
                 THEN /\ daily_costs' = analysis.final_estimates
                      /\ data_sources' = analysis.final_estimates.data_sources
                      /\ UNCHANGED adjustment_factor
                      /\ calls' = calls \cup CostAdapters
                                        \cup {"search_duckduckgo"}
                 ELSE /\ daily_costs' = estimate_daily_costs(city, trip_budget,
                                            num_days, num_people)
                      /\ data_sources' = <<"Basic estimates">>
                      /\ adjustment_factor' =
                            [value |-> estimate_factor(city, trip_budget,
                                            num_days, num_people)]
                      /\ calls' = calls \cup CostAdapters
    /\ pc' = "format"
    /\ UNCHANGED <<inputs, num_days, forecast, exchange_rate, exchange_source,
                   result, budget_summary, budget_plan, tool_vars,
                   hotel_search, returned, ui_outputs,
                   search_vars, agent_vars, rate_lookups, weather_vars>>

\* ------------------------- 6-8. hotel search, formatting, return (458-656)
\* The summary with a strict comparison for its verdict.
summary_strict(costs, sources, budget, days, n) ==
    LET total == Get(costs, "total_daily", Get(costs, "total_per_day", 0))
    IN  [daily_accommodation |->
            Get(costs, "daily_accommodation",
                Get(costs, "accommodation_per_night", 0)),
         daily_food |-> Get(costs, "daily_food", Get(costs, "food_per_day", 0)),
         daily_transport |-> Get(costs, "transport_per_day", 100 * (8 * n)),
         total_daily |-> total,
         total_trip |-> total * days,
         within_budget |-> 100 * budget > total * days,
         data_sources |-> sources]

\* The figures of the "Real-Time Cost Analysis" and "Budget Analysis" lines
\* of the budget summary, in cents.
summary(costs, sources, budget, days, n) ==
    LET total == Get(costs, "total_daily", Get(costs, "total_per_day", 0))
    IN  [daily_accommodation |->
            Get(costs, "daily_accommodation",
                Get(costs, "accommodation_per_night", 0)),
         daily_food |-> Get(costs, "daily_food", Get(costs, "food_per_day", 0)),
         daily_transport |-> Get(costs, "transport_per_day", 100 * (8 * n)),
         total_daily |-> total,
         total_trip |-> total * days,
         within_budget |-> 100 * budget >= total * days,
         data_sources |-> sources]

\* int(x) of a positive amount.
int(x) == x.n \div x.d

\* The price filter with its test of the band inverted.
price_filter_inverted(min_price, max_price) ==
    IF QLess(Q(0, 1), min_price) /\ QLess(max_price, min_price)
    THEN [min_price |-> int(min_price), max_price |-> int(max_price)]
    ELSE None

\* "Only add price filters if they're reasonable": the min_price and
\* max_price of hotels_params, or None when they are left out.
price_filter(min_price, max_price) ==
    IF QLess(Q(0, 1), min_price) /\ QLess(min_price, max_price)
    THEN [min_price |-> int(min_price), max_price |-> int(max_price)]
    ELSE None

\* What the provider does to a call of get_tripadvisor_hotels: a request
\* raises, the city has no location, or the hotel list is served.
TripadvisorOutcomes == {"raised", "no location", "hotels"}

\* The hotel search returning an empty list when a request raised.
get_tripadvisor_hotels_quiet(min_price, max_price, outcome) ==
    [min_price |-> min_price, max_price |-> max_price,
     raised |-> outcome = "raised",
     price_filter |-> IF outcome = "hotels"
                      THEN price_filter(min_price, max_price) ELSE None,
     hotel_options |->
        IF outcome = "hotels" THEN <<"name - price">> ELSE <<>>]

\* get_tripadvisor_hotels: the bounds it was called with, whether a request
\* raised, the price filter of its hotel request (None when no request was
\* sent with one) and the list it returns.
get_tripadvisor_hotels(min_price, max_price, outcome) ==
    [min_price |-> min_price, max_price |-> max_price,
     raised |-> outcome = "raised",
     price_filter |-> IF outcome = "hotels"
                      THEN price_filter(min_price, max_price) ELSE None,
     hotel_options |->
        CASE outcome = "raised" -> <<"Error fetching hotel data: ...">>
          [] outcome = "no location" -> <<>>
          [] outcome = "hotels" -> <<"name - price">>]

\* The hotel text: a line for every option, or the line for none.
hotel_info(hotel_options) ==
    IF hotel_options = <<>>
    THEN "Real-Time Hotel Options: No hotels found within your budget range."
    ELSE IF hotel_options = <<"Error fetching hotel data: ...">>
    THEN "Real-Time Hotel Options: Error fetching hotel data: ..."
    ELSE "Real-Time Hotel Options: name - price"

\* The insights text: what the searches found, or the note that the
\* insights are being loaded when there is no cost analysis.
duckduckgo_info(analysis) ==
    IF analysis # None
    THEN "Real-Time Insights (DuckDuckGo Search): ..."
    ELSE "Real-Time Insights (DuckDuckGo Search): being loaded"

\* The tuple of "8. Return All Results".
plan_return(hotel_options, analysis) ==
    <<"weather_info", "budget_summary", hotel_info(hotel_options),
      "google_info", "formatted_itinerary", duckduckgo_info(analysis)>>

\* get_google_places is called here; what it returns shapes the places
\* text alone.
FormatAndReturn ==
    /\ pc = "format"
    /\ calls' = calls \cup {"get_tripadvisor_hotels", "get_google_places"}
    /\ \E outcome \in TripadvisorOutcomes :
           hotel_search' = get_tripadvisor_hotels(budget_plan.lower_bound,
                                budget_plan.upper_bound, outcome)
    /\ budget_summary' = summary(daily_costs, data_sources, trip_budget,
                                 num_days, num_people)
    /\ result' = "plan"
    /\ returned' = plan_return(hotel_search'.hotel_options, cost_analysis)
    /\ pc' = "done"
    /\ UNCHANGED <<inputs, num_days, forecast, exchange_rate, exchange_source,
                   cost_analysis, daily_costs, data_sources,
                   adjustment_factor,
                   sources_returned, budget_plan, tool_vars, ui_outputs,
                   search_vars, agent_vars, rate_lookups, weather_vars>>

\* ---------------------------------------- the handler of the plan button
\* The seventh output: the text of the enhanced planner, of the handler for
\* its exception, or of the note that it is disabled.
enhanced_result(use_enhanced, planner_raised) ==
    IF use_enhanced
    THEN IF planner_raised
         THEN "Enhanced analysis temporarily unavailable: ..."
         ELSE "enhanced_planner.plan_trip_enhanced(user_input)"
    ELSE "Enhanced AI Analysis Disabled"

\* plan_trip_enhanced, from the return of plan_trip on.  The locals of
\* plan_trip are gone by then.
plan_trip_enhanced ==
    /\ pc = "done"
    /\ \E use_enhanced \in BOOLEAN :
       \E planner_raised \in IF use_enhanced THEN BOOLEAN ELSE {FALSE} :
           ui_outputs' = <<returned[1], returned[2], returned[3], returned[4],
                           returned[5],
                           enhanced_result(use_enhanced, planner_raised),
                           returned[6]>>
    /\ pc' = "ui_done"
    /\ calls' = {}
    /\ forecast' = None
    /\ exchange_rate' = None
    /\ exchange_source' = ""
    /\ cost_analysis' = None
    /\ daily_costs' = None
    /\ data_sources' = <<>>
    /\ adjustment_factor' = None
    /\ sources_returned' = {}
    /\ budget_summary' = None
    /\ budget_plan' = None
    /\ hotel_search' = None
    /\ UNCHANGED <<inputs, num_days, result, returned, tool_vars,
                   search_vars, agent_vars, rate_lookups, weather_vars>>

Next ==
    \/ InputValidation
    \/ WeatherFetch
    \/ ExchangeRateFetch
    \/ ItineraryGeneration
    \/ CostAnalysis
    \/ FormatAndReturn
    \/ plan_trip_enhanced

Spec == Init /\ [][Next]_vars

\* ------------------------------------ the calculate_budget_breakdown tool
\* The arguments the agent may call the tool with: a total budget in
\* dollars, whole or not, a number of days, a number of travellers.
BreakdownBudgets == {Q(0, 1), Q(100, 1), Q(1000, 1), Q(10001, 100)}
BreakdownDays == 0..MaxDay
BreakdownPeople == 1..MaxPeople

\* The figures of the text the tool returns, each printed with ":,.2f" and
\* held here in cents; the division by num_days = 0 raises, and the tool
\* returns the text of its handler.
calculate_budget_breakdown(total_budget, days, n) ==
    IF days = 0 THEN [error |-> "Error calculating budget: ..."]
    ELSE LET accommodation_budget == QMul(total_budget, Q(5, 10))
             food_budget == QMul(total_budget, Q(2, 10))
             travel_budget == QMul(total_budget, Q(1, 10))
             leisure_budget == QMul(total_budget, Q(2, 10))
             per_night_budget == QMul(accommodation_budget, Q(1, days))
             daily_budget == QMul(total_budget, Q(1, days))
         IN  [num_days |-> days, num_people |-> n,
              total_budget |-> round2(total_budget),
              daily_budget |-> round2(daily_budget),
              accommodation_budget |-> round2(accommodation_budget),
              food_budget |-> round2(food_budget),
              travel_budget |-> round2(travel_budget),
              leisure_budget |-> round2(leisure_budget),
              per_night_budget |-> round2(per_night_budget)]

\* The two budget computations on inputs of their own: plan_trip's, for an
\* accepted request, and the tool's, for the arguments of a call.
InitBudget ==
    /\ city = "Paris"
    /\ start_date \in {d \in DateInputs : Parses(d)}
    /\ end_date \in {d \in DateInputs : Parses(d) /\ start_date.day <= d.day}
    /\ num_people = 1
    /\ trip_budget \in BudgetInputs \ {0}
    /\ currency_code = "EUR"
    /\ pc = "budget"
    /\ num_days = (end_date.day - start_date.day) + 1
    /\ calls = {}
    /\ forecast = None
    /\ exchange_rate = None
    /\ exchange_source = ""
    /\ cost_analysis = None
    /\ daily_costs = None
    /\ data_sources = <<>>
    /\ adjustment_factor = None
    /\ sources_returned = {}
    /\ result = ""
    /\ budget_summary = None
    /\ budget_plan = None
    /\ tool_args \in [total_budget : BreakdownBudgets,
                       num_days : BreakdownDays, num_people : BreakdownPeople]
    /\ tool_result = None
    /\ hotel_search = None
    /\ returned = <<>>
    /\ ui_outputs = <<>>
    /\ rate_lookups = None
    /\ NoWeather
    /\ NoSearch
    /\ NoAgent

BudgetCalculation ==
    /\ pc = "budget"
    /\ budget_plan = None
    /\ budget_plan' = budget_calculation(trip_budget, num_days)
    /\ UNCHANGED <<inputs, pc, num_days, calls, forecast, exchange_rate,
                   exchange_source, cost_analysis, daily_costs, data_sources,
                   adjustment_factor, sources_returned, result,
                   budget_summary, tool_vars, hotel_search, returned,
                   ui_outputs,
                   search_vars, agent_vars, rate_lookups, weather_vars>>

BudgetBreakdownTool ==
    /\ pc = "budget"
    /\ tool_result = None
    /\ tool_result' = calculate_budget_breakdown(tool_args.total_budget,
                            tool_args.num_days, tool_args.num_people)
    /\ UNCHANGED <<inputs, pc, num_days, calls, forecast, exchange_rate,
                   exchange_source, cost_analysis, daily_costs, data_sources,
                   adjustment_factor, sources_returned, result,
                   budget_summary, budget_plan, tool_args, hotel_search,
                   returned, ui_outputs,
                   search_vars, agent_vars, rate_lookups, weather_vars>>

NextBudget ==
    \/ BudgetCalculation
    \/ BudgetBreakdownTool

SpecBudget == InitBudget /\ [][NextBudget]_vars


\* ------------------------------------ the exchange rate of plan_trip
\* The currency codes a request may carry, as typed, and what the two
\* online sources may answer: no rate, a rate of 0, a rate.
ExchangeCurrencies == {"EUR", "eur", "INR", "JPY", "GBP", "XYZ", "xyz"}
DuckduckgoRates == {None, Q(0, 1), Q(93, 100), Q(84, 1)}
ApiRates == {None, Q(0, 1), Q(92, 100)}

MsgRate == "Could not fetch exchange rate for ..."

\* plan_trip at its exchange rate, for an accepted request.
InitExchange ==
    /\ city = "Paris"
    /\ start_date = [text |-> "YYYY-MM-DD", day |-> 1]
    /\ end_date = [text |-> "YYYY-MM-DD", day |-> 1]
    /\ num_people = 1
    /\ trip_budget \in BudgetInputs \ {0}
    /\ currency_code \in ExchangeCurrencies
    /\ pc = "exchange"
    /\ num_days = 1
    /\ calls = {"get_current_weather", "get_weather_forecast"}
    /\ forecast = [days |-> {1}]
    /\ exchange_rate = None
    /\ exchange_source = ""
    /\ cost_analysis = None
    /\ daily_costs = None
    /\ data_sources = <<>>
    /\ adjustment_factor = None
    /\ sources_returned = {}
    /\ result = ""
    /\ budget_summary = None
    /\ budget_plan = None
    /\ tool_args = None
    /\ tool_result = None
    /\ hotel_search = None
    /\ returned = <<>>
    /\ ui_outputs = <<>>
    /\ rate_lookups = None
    /\ NoWeather
    /\ NoSearch
    /\ NoAgent

\* The exchange rate of plan_trip, with what each source answered kept
\* beside the rate: the search first, the API when the search found no
\* rate, the table of major currencies or 1.0 when the API gave None.
ExchangeRateResolution ==
    /\ pc = "exchange"
    /\ \E ddg \in DuckduckgoRates :
           IF truthy(ddg)
           THEN /\ exchange_rate' = exchange(ddg, None, currency_code).rate
                /\ exchange_source' = exchange(ddg, None, currency_code).source
                /\ calls' = calls \cup {"get_currency_exchange_duckduckgo"}
                /\ rate_lookups' = [duckduckgo_rate |-> ddg,
                                    api_called |-> FALSE, api_rate |-> None]
           ELSE \E api \in ApiRates :
                /\ exchange_rate' = exchange(ddg, api, currency_code).rate
                /\ exchange_source' = exchange(ddg, api, currency_code).source
                /\ calls' = calls \cup {"get_currency_exchange_duckduckgo",
                                        "get_exchange_rate"}
                /\ rate_lookups' = [duckduckgo_rate |-> ddg,
                                    api_called |-> TRUE, api_rate |-> api]
    /\ pc' = "exchange_check"
    /\ UNCHANGED <<inputs, num_days, forecast, cost_analysis, daily_costs,
                   data_sources, adjustment_factor, result, budget_summary,
                   sources_returned, budget_plan, tool_vars, hotel_search,
                   returned, ui_outputs, search_vars, agent_vars, weather_vars>>

\* "Final check for exchange rate to prevent crashes": the error return, or
\* on to the budget calculation.
ExchangeFinalCheck ==
    /\ pc = "exchange_check"
    /\ IF exchange_rate = None
       THEN /\ result' = MsgRate
            /\ returned' = error_return(MsgRate)
            /\ pc' = "done"
       ELSE /\ pc' = "budget"
            /\ UNCHANGED <<result, returned>>
    /\ UNCHANGED <<inputs, num_days, calls, forecast, exchange_rate,
                   exchange_source, cost_analysis, daily_costs, data_sources,
                   adjustment_factor, budget_summary, sources_returned,
                   budget_plan, tool_vars, hotel_search, ui_outputs,
                   rate_lookups, search_vars, agent_vars, weather_vars>>

NextExchange ==
    \/ ExchangeRateResolution
    \/ ExchangeFinalCheck

SpecExchange == InitExchange /\ [][NextExchange]_vars

\* ------------------------------------- the weather section of plan_trip
\* Here a date is its proleptic Gregorian ordinal, as date.toordinal()
\* gives it: 1 is 0001-01-01 and DateMax is date.max, 9999-12-31.
DateMax == 3652059

\* date + timedelta(days) raises OverflowError past date.max, and is the
\* later date otherwise.
OverflowError(date, days) == date + days > DateMax
timedelta_add(date, days) == date + days

\* The windows of the model: at most MaxDay days, at the start of the
\* calendar and at its end.
WeatherDays == (1..MaxDay) \cup ((DateMax - MaxDay + 1)..DateMax)
WeatherWindows ==
    {w \in WeatherDays \X WeatherDays : w[1] <= w[2] /\ w[2] - w[1] < MaxDay}

\* get_weather_forecast: None, or a dict keyed by the dates the provider
\* has a forecast for, which may be none, some or all of the trip's dates
\* and dates outside the trip.
WeatherCover(s, e) ==
    {None} \cup {[days |-> d] : d \in {{}, {s}, s..e, WeatherDays \ (s..e)}}

\* plan_trip after its validation accepted the window, at line 386.
InitWeather ==
    /\ city = "Paris"
    /\ \E w \in WeatherWindows :
           /\ start_date = [text |-> "YYYY-MM-DD", day |-> w[1]]
           /\ end_date = [text |-> "YYYY-MM-DD", day |-> w[2]]
           /\ num_days = (w[2] - w[1]) + 1
    /\ num_people = 1
    /\ trip_budget = 100
    /\ currency_code = "EUR"
    /\ pc = "weather"
    /\ calls = {}
    /\ forecast = None
    /\ exchange_rate = None
    /\ exchange_source = ""
    /\ cost_analysis = None
    /\ daily_costs = None
    /\ data_sources = <<>>
    /\ adjustment_factor = None
    /\ sources_returned = {}
    /\ result = ""
    /\ budget_summary = None
    /\ budget_plan = None
    /\ tool_args = None
    /\ tool_result = None
    /\ hotel_search = None
    /\ returned = <<>>
    /\ ui_outputs = <<>>
    /\ rate_lookups = None
    /\ NoWeather
    /\ NoSearch
    /\ NoAgent

\* What the date loops leave alone.
weather_frame ==
    <<inputs, num_days, exchange_rate, exchange_source, cost_analysis,
      daily_costs, data_sources, adjustment_factor, budget_summary,
      sources_returned, budget_plan, tool_vars, hotel_search, ui_outputs,
      rate_lookups, search_vars, agent_vars>>

\* forecast = get_weather_forecast(city); "if not forecast:" starts the
\* loop of the fallback forecast, for None and for an empty dict.
WeatherForecast ==
    /\ pc = "weather"
    /\ calls' = calls \cup {"get_current_weather", "get_weather_forecast"}
    /\ \E fc \in WeatherCover(start_date.day, end_date.day) :
           /\ forecast' = fc
           /\ IF fc = None \/ fc.days = {}
              THEN /\ fallback_forecast' = [days |-> {}]
                   /\ current_date' = start_date.day
                   /\ pc' = "fallback_loop"
              ELSE /\ pc' = "weather_section"
                   /\ UNCHANGED <<fallback_forecast, current_date>>
    /\ UNCHANGED <<weather_frame, result, returned, forecast_days,
                   weather_info>>

\* One test of "while current_date <= end_date_obj" of the fallback
\* forecast: an entry for the date and the step to the next date, which
\* raises at date.max and hands over to plan_trip's handler; or the end of
\* the loop.
FallbackLoop ==
    /\ pc = "fallback_loop"
    /\ IF current_date <= end_date.day
       THEN /\ fallback_forecast' =
                   [days |-> fallback_forecast.days \cup {current_date}]
            /\ IF OverflowError(current_date, 1)
               THEN /\ result' = MsgError
                    /\ returned' = error_return(MsgError)
                    /\ pc' = "done"
                    /\ UNCHANGED current_date
               ELSE /\ current_date' = timedelta_add(current_date, 1)
                    /\ UNCHANGED <<result, returned, pc>>
            /\ UNCHANGED forecast
       ELSE /\ forecast' = fallback_forecast
            /\ pc' = "weather_section"
            /\ UNCHANGED <<fallback_forecast, current_date, result, returned>>
    /\ UNCHANGED <<weather_frame, calls, forecast_days, weather_info>>

\* The lines of the weather section.
WeatherHeader ==
    <<[text |-> "Current: ..."], [text |-> ""],
      [text |-> "Forecast during trip:"]>>
WeatherNotes ==
    <<[text |-> "Detailed forecast not available for all dates."],
      [text |-> "Check weather services closer to your travel dates."]>>

\* The section is started, after the exchange rate, the budget, the
\* itinerary and the cost analysis, none of which touches the forecast.
FormatStart ==
    /\ pc = "weather_section"
    /\ weather_info' = WeatherHeader
    /\ current_date' = start_date.day
    /\ forecast_days' = 0
    /\ pc' = "format_loop"
    /\ UNCHANGED <<weather_frame, calls, forecast, fallback_forecast, result,
                   returned>>

\* One pass of "while current_date <= end_date_obj" of the section: the
\* line of the date, then the step to the next date.
FormatLoop ==
    /\ pc = "format_loop"
    /\ current_date <= end_date.day
    /\ IF current_date \in forecast.days
       THEN /\ weather_info' = Append(weather_info,
                   [date |-> current_date, text |-> "forecast[date_str]"])
            /\ forecast_days' = forecast_days + 1
       ELSE /\ weather_info' = Append(weather_info,
                   [date |-> current_date,
                    text |-> "Forecast data not available"])
            /\ UNCHANGED forecast_days
    /\ IF OverflowError(current_date, 1)
       THEN /\ result' = MsgError
            /\ returned' = error_return(MsgError)
            /\ pc' = "done"
            /\ UNCHANGED current_date
       ELSE /\ current_date' = timedelta_add(current_date, 1)
            /\ UNCHANGED <<result, returned, pc>>
    /\ UNCHANGED <<weather_frame, calls, forecast, fallback_forecast>>

\* The loop has ended: the two notes when no date had a forecast.
FormatNotes ==
    /\ pc = "format_loop"
    /\ ~(current_date <= end_date.day)
    /\ weather_info' = IF forecast_days = 0 THEN weather_info \o WeatherNotes
                       ELSE weather_info
    /\ pc' = "weather_done"
    /\ UNCHANGED <<weather_frame, calls, forecast, fallback_forecast,
                   current_date, forecast_days, result, returned>>

NextWeather ==
    \/ WeatherForecast
    \/ FallbackLoop
    \/ FormatStart
    \/ FormatLoop
    \/ FormatNotes

SpecWeather == InitWeather /\ [][NextWeather]_vars

\* plan_trip runs on: a step that can be taken is taken.
SpecWeatherFair == SpecWeather /\ WF_vars(NextWeather)

\* --------------------------------------- estimate_daily_costs in floats
\* A positive float is [m |-> the 53 bits of its significand, the least
\* significant first, e |-> the exponent of its last bit]: its value is
\* m * 2^e.  A natural number is the sequence of its bits, least
\* significant first.
Precision == 53

RECURSIVE NatBits(_)
NatBits(n) == IF n = 0 THEN <<>> ELSE <<n % 2>> \o NatBits(n \div 2)

RECURSIVE BitsNat(_)
BitsNat(bits) == IF bits = <<>> THEN 0 ELSE Head(bits) + 2 * BitsNat(Tail(bits))

Zeros(k) == [i \in 1..k |-> 0]

\* The bits without their leading zeros.
RECURSIVE Trim(_)
Trim(bits) ==
    IF bits # <<>> /\ bits[Len(bits)] = 0
    THEN Trim(SubSeq(bits, 1, Len(bits) - 1))
    ELSE bits

\* The bits of the number whose digit i, of weight 2^(i-1), is digits[i]:
\* the carries are passed from the low half of a range to its high half.
\* (The carry is never negative; testing it on entry makes TLC evaluate
\* it there, and not as a chain of pending carries at the last digit.)
RECURSIVE CarryRange(_, _, _, _)
CarryRange(digits, lo, hi, carry) ==
    IF carry >= 0 /\ lo < hi
    THEN LET mid == (lo + hi) \div 2
             low == CarryRange(digits, lo, mid, carry)
             high == CarryRange(digits, mid + 1, hi, low.carry)
         IN  [bits |-> low.bits \o high.bits, carry |-> high.carry]
    ELSE [bits |-> <<(digits[lo] + carry) % 2>>,
          carry |-> (digits[lo] + carry) \div 2]
Carried(digits) ==
    LET all == CarryRange(digits, 1, Len(digits), 0)
    IN  all.bits \o NatBits(all.carry)

\* bits * n
MulBits(bits, n) == Carried([i \in 1..Len(bits) |-> bits[i] * n])

\* a + b
AddBits(a, b) ==
    LET len == IF Len(a) < Len(b) THEN Len(b) ELSE Len(a)
    IN  Carried([i \in 1..len |-> (IF i <= Len(a) THEN a[i] ELSE 0)
                                    + (IF i <= Len(b) THEN b[i] ELSE 0)])

\* Quotient and remainder of bits by n, the long division: the remainder
\* r < n is passed from the high half of a range to its low half.
RECURSIVE DivRange(_, _, _, _, _)
DivRange(bits, n, lo, hi, r) ==
    IF r < n /\ lo < hi
    THEN LET mid == (lo + hi) \div 2
             high == DivRange(bits, n, mid + 1, hi, r)
             low == DivRange(bits, n, lo, mid, high.r)
         IN  [q |-> low.q \o high.q, r |-> low.r]
    ELSE [q |-> <<(2 * r + bits[lo]) \div n>>, r |-> (2 * r + bits[lo]) % n]
DivBits(bits, n) == DivRange(bits, n, 1, Len(bits), 0)

\* The float nearest to bits * 2^e, a tie going to the even significand;
\* inexact tells that the value lies above bits * 2^e, by less than 2^e.
RoundToFloat(bits, e, inexact) ==
    LET len == Len(bits)
        k == len - Precision
    IN  IF k <= 0 THEN [m |-> Zeros(-k) \o bits, e |-> e + k]
        ELSE LET kept == SubSeq(bits, k + 1, len)
                 half == bits[k] = 1
                 rest == inexact \/ \E i \in 1..(k - 1) : bits[i] = 1
                 rounded == IF half /\ (rest \/ kept[1] = 1)
                            THEN AddBits(kept, <<1>>) ELSE kept
             IN  IF Len(rounded) > Precision
                 THEN [m |-> SubSeq(rounded, 2, Precision + 1), e |-> e + k + 1]
                 ELSE [m |-> rounded, e |-> e + k]

\* float(n), for an int n >= 1.
float(n) == RoundToFloat(NatBits(n), 0, FALSE)

\* x / n, for a float x and an int n >= 1: the quotient is taken with
\* Guard more bits than the float has, and rounded once.
Guard == 16
FloatDiv(x, n) ==
    LET d == DivBits(Zeros(Guard) \o x.m, n)
    IN  RoundToFloat(Trim(d.q), x.e - Guard, d.r # 0)

\* n * x, for an int n >= 1 and a float x.
FloatMul(n, x) == RoundToFloat(MulBits(x.m, n), x.e, FALSE)

\* The bits of x at the exponent e, not above its own.
Aligned(x, e) == Zeros(x.e - e) \o x.m

\* x + y
FloatAdd(x, y) ==
    LET e == IF x.e < y.e THEN x.e ELSE y.e
    IN  RoundToFloat(AddBits(Aligned(x, e), Aligned(y, e)), e, FALSE)

\* x < y
FloatLess(x, y) ==
    \/ x.e < y.e
    \/ /\ x.e = y.e
       /\ \E i \in 1..Precision :
              /\ x.m[i] < y.m[i]
              /\ \A j \in (i + 1)..Precision : x.m[j] = y.m[j]

\* round(x, 2) in cents, for a float x >= 1: the decimal nearest to the
\* value of x, a tie going to the even cent.
FloatCents(x) ==
    LET bits == MulBits(x.m, 100)
        k == -x.e
        half == bits[k] = 1
        rest == \E i \in 1..(k - 1) : bits[i] = 1
        whole == BitsNat(SubSeq(bits, k + 1, Len(bits)))
    IN  IF half /\ (rest \/ whole % 2 = 1) THEN whole + 1 ELSE whole

\* The literals 1.5, 0.7, 2.0 and 0.5.
Literal == [p15 |-> FloatDiv(float(3), 2), p07 |-> FloatDiv(float(7), 10),
            p20 |-> float(2), p05 |-> FloatDiv(float(1), 2)]

\* The adjustment in floats, without its caps.
adjustment_float_uncapped(budget_per_day, total_daily_cost) ==
    LET ratio == FloatDiv(budget_per_day, total_daily_cost)
    IN  IF FloatLess(FloatMul(total_daily_cost, Literal.p15), budget_per_day)
        THEN ratio
        ELSE IF FloatLess(budget_per_day,
                          FloatMul(total_daily_cost, Literal.p07))
        THEN ratio
        ELSE None

\* adjustment_factor, or None when neither branch is taken.
adjustment_float(budget_per_day, total_daily_cost) ==
    LET ratio == FloatDiv(budget_per_day, total_daily_cost)
    IN  IF FloatLess(FloatMul(total_daily_cost, Literal.p15), budget_per_day)
        THEN IF FloatLess(Literal.p20, ratio) THEN Literal.p20 ELSE ratio
        ELSE IF FloatLess(budget_per_day,
                          FloatMul(total_daily_cost, Literal.p07))
        THEN IF FloatLess(ratio, Literal.p05) THEN Literal.p05 ELSE ratio
        ELSE None

\* The return statement: the dict in cents, with the locals it is made of
\* and the sum before its rounding.
estimate_return(known, budget_per_day, factor, daily_accommodation, daily_food) ==
    [budget_per_day |-> budget_per_day,
     value |-> factor,
     daily_accommodation |-> daily_accommodation,
     daily_food |-> daily_food,
     total |-> FloatAdd(daily_accommodation, daily_food),
     returns |->
         [daily_accommodation |-> FloatCents(daily_accommodation),
          daily_food |-> FloatCents(daily_food),
          total_daily |->
              FloatCents(FloatAdd(daily_accommodation, daily_food)),
          city_known |-> known]]

\* daily_accommodation *= adjustment_factor and daily_food *=
\* adjustment_factor, in the branch that was taken; the two stay ints when
\* neither was.
estimate_adjusted(known, daily_accommodation, daily_food, budget_per_day, factor) ==
    estimate_return(known, budget_per_day, factor,
                    IF factor = None THEN float(daily_accommodation)
                    ELSE FloatMul(daily_accommodation, factor),
                    IF factor = None THEN float(daily_food)
                    ELSE FloatMul(daily_food, factor))

\* The adjustment on the budget level, total_daily_cost being the sum of
\* the two int amounts.
estimate_budget_level(known, daily_accommodation, daily_food, budget_per_day) ==
    estimate_adjusted(known, daily_accommodation, daily_food, budget_per_day,
                      adjustment_float(budget_per_day,
                                       daily_accommodation + daily_food))

\* estimate_daily_costs as Python computes it, statement by statement:
\* its locals at the return statement, and the dict it returns, in cents.
estimate_daily_costs_float(c, total_budget, days, n) ==
    LET key == city_lower(c)
        estimates == IF key \in DOMAIN base_estimates
                     THEN base_estimates[key]
                     ELSE [accommodation |-> 100, food |-> 30]
    IN  estimate_budget_level(key \in DOMAIN base_estimates,
                              estimates.accommodation * n,
                              estimates.food * n,
                              FloatDiv(float(total_budget), days))

\* The budgets of the calls of estimate_daily_costs.
EstimateBudgets == {100, 250, 500, 1000, 2000}

\* A call of estimate_daily_costs.
InitFloat ==
    /\ city \in {"Paris", "Atlantis"}
    /\ num_days \in 1..MaxDay
    /\ start_date = [text |-> "YYYY-MM-DD", day |-> 1]
    /\ end_date = [text |-> "YYYY-MM-DD", day |-> num_days]
    /\ num_people \in 1..MaxPeople
    /\ trip_budget \in EstimateBudgets
    /\ currency_code = "EUR"
    /\ pc = "estimate"
    /\ calls = {}
    /\ forecast = None
    /\ exchange_rate = None
    /\ exchange_source = ""
    /\ cost_analysis = None
    /\ daily_costs = None
    /\ data_sources = <<>>
    /\ adjustment_factor = None
    /\ sources_returned = {}
    /\ result = ""
    /\ budget_summary = None
    /\ budget_plan = None
    /\ tool_args = None
    /\ tool_result = None
    /\ hotel_search = None
    /\ returned = <<>>
    /\ ui_outputs = <<>>
    /\ rate_lookups = None
    /\ NoWeather
    /\ NoSearch
    /\ NoAgent

\* The call returns; adjustment_factor keeps its locals.
EstimateReturns ==
    /\ pc = "estimate"
    /\ LET call == estimate_daily_costs_float(city, trip_budget, num_days,
                                              num_people)
       IN  /\ daily_costs' = call.returns
           /\ adjustment_factor' = call
    /\ calls' = calls \cup {"estimate_daily_costs"}
    /\ pc' = "estimated"
    /\ UNCHANGED <<inputs, num_days, forecast, exchange_rate, exchange_source,
                   cost_analysis, data_sources, sources_returned, result,
                   budget_summary, budget_plan, tool_vars, hotel_search,
                   returned, ui_outputs, rate_lookups, weather_vars,
                   search_vars, agent_vars>>

NextFloat == EstimateReturns

SpecFloat == InitFloat /\ [][NextFloat]_vars

\* ---------------------------------------------------- DuckDuckGo search
\* max_retries of search_duckduckgo_with_retry: 1 by default, 0 in the
\* connection test.
MaxRetries == 1

\* What ddgs.text can give the worker thread: a list of results, empty or
\* not, or an exception.
SearchResults == {[list |-> <<>>], [list |-> <<"result">>]}
SearchErrors == {[error |-> "DuckDuckGoSearchException"]}

\* The variables of plan_trip and of the budget tool.
plan_vars ==
    <<inputs, pc, num_days, calls, forecast, exchange_rate, exchange_source,
      cost_analysis, daily_costs, data_sources, adjustment_factor,
      sources_returned, result, budget_summary, budget_plan, tool_vars,
      hotel_search, returned, ui_outputs, rate_lookups, weather_vars>>

\* An adapter of a planning request calls search_duckduckgo_with_retry.
InitSearch ==
    /\ city = "Paris"
    /\ start_date = [text |-> "YYYY-MM-DD", day |-> 1]
    /\ end_date = [text |-> "YYYY-MM-DD", day |-> 1]
    /\ num_people = 1
    /\ trip_budget = 100
    /\ currency_code = "EUR"
    /\ pc = "search"
    /\ num_days = 1
    /\ calls = {"search_duckduckgo"}
    /\ forecast = None
    /\ exchange_rate = None
    /\ exchange_source = ""
    /\ cost_analysis = None
    /\ daily_costs = None
    /\ data_sources = <<>>
    /\ adjustment_factor = None
    /\ sources_returned = {}
    /\ result = ""
    /\ budget_summary = None
    /\ budget_plan = None
    /\ tool_args = None
    /\ tool_result = None
    /\ hotel_search = None
    /\ returned = <<>>
    /\ ui_outputs = <<>>
    /\ rate_lookups = None
    /\ NoWeather
    /\ search_pc = "call"
    /\ max_retries \in 0..MaxRetries
    /\ attempt = 0
    /\ thread = "none"
    /\ result0 = None
    /\ exception0 = None
    /\ search_log = <<>>
    /\ retry_result = None
    /\ abandoned = 0
    /\ query = 1
    /\ local_insights = {}
    /\ stale_results = {}
    /\ NoAgent

\* search_with_timeout up to thread.start(): fresh result and exception
\* cells, and a worker thread running target().
ThreadStart ==
    /\ search_pc = "call"
    /\ thread' = "running"
    /\ result0' = None
    /\ exception0' = None
    /\ search_pc' = "join"
    /\ UNCHANGED <<plan_vars, agent_vars, stale_results, max_retries, attempt,
                   search_log, retry_result, abandoned,
                   query, local_insights>>

\* target(): result[0] = func(*args)
WorkerReturns ==
    /\ thread = "running"
    /\ \E r \in SearchResults : result0' = r
    /\ thread' = "finished"
    /\ UNCHANGED <<plan_vars, agent_vars, stale_results, search_pc,
                   max_retries, attempt, exception0, search_log, retry_result, abandoned,
                   query, local_insights>>

\* target(): except Exception as e: exception[0] = e
WorkerRaises ==
    /\ thread = "running"
    /\ \E e \in SearchErrors : exception0' = e
    /\ thread' = "finished"
    /\ UNCHANGED <<plan_vars, agent_vars, stale_results, search_pc,
                   max_retries, attempt, result0, search_log, retry_result, abandoned,
                   query, local_insights>>

\* thread.join(timeout) returns: the thread has finished, or the timeout
\* has run out with the thread still running.
JoinReturns ==
    /\ search_pc = "join"
    /\ thread \in {"finished", "running"}
    /\ search_pc' = "check"
    /\ UNCHANGED <<plan_vars, agent_vars, stale_results, max_retries, attempt,
                   thread, result0, exception0, search_log, retry_result, abandoned,
                   query, local_insights>>

\* search_with_timeout from thread.is_alive() on: what it returns, or the
\* exception it raises.
search_with_timeout(alive, exception_cell, result_cell) ==
    IF alive THEN [raised |-> FALSE, value |-> None]
    ELSE IF exception_cell # None
    THEN [raised |-> TRUE, value |-> exception_cell]
    ELSE [raised |-> FALSE, value |-> result_cell]

\* search_duckduckgo without its handler: the exception goes on to its
\* caller.
search_duckduckgo_unguarded(outcome) ==
    IF outcome.raised THEN [raised |-> TRUE, results |-> <<>>]
    ELSE IF outcome.value # None
    THEN [raised |-> FALSE, results |-> outcome.value.list]
    ELSE [raised |-> FALSE, results |-> <<>>]

\* search_duckduckgo, from the outcome of its search_with_timeout: whether
\* it raises, and the list it returns.
search_duckduckgo(outcome) ==
    IF outcome.raised THEN [raised |-> FALSE, results |-> <<>>]
    ELSE IF outcome.value # None
    THEN [raised |-> FALSE, results |-> outcome.value.list]
    ELSE [raised |-> FALSE, results |-> <<>>]

\* How the call of search_with_timeout ended.
search_kind(alive, exception) ==
    IF alive THEN "timeout" ELSE IF exception # None THEN "error"
    ELSE "completed"

\* The loop with one turn more: range(max_retries + 2).
search_duckduckgo_with_retry_again(search, turn, retries) ==
    IF ~search.raised /\ search.results # <<>>
    THEN [returns |-> TRUE, results |-> search.results]
    ELSE IF turn = retries + 1 THEN [returns |-> TRUE, results |-> <<>>]
    ELSE [returns |-> FALSE, results |-> <<>>]

\* One turn of the loop of search_duckduckgo_with_retry, the turn-th of
\* range(retries + 1), from what its call of search_duckduckgo came to:
\* whether the function returns in this turn, and with what.  An exception
\* of the call is caught, and so is an empty list: the loop goes on, and
\* after its last turn the function returns [].
search_duckduckgo_with_retry(search, turn, retries) ==
    IF ~search.raised /\ search.results # <<>>
    THEN [returns |-> TRUE, results |-> search.results]
    ELSE IF turn = retries THEN [returns |-> TRUE, results |-> <<>>]
    ELSE [returns |-> FALSE, results |-> <<>>]

\* The rest of one turn of the loop of search_duckduckgo_with_retry:
\* search_with_timeout decides, search_duckduckgo returns, and the loop
\* returns the results, goes to the next attempt, or gives up with [].  A
\* thread that outlived the timeout is left to itself.
SearchReturns ==
    /\ search_pc = "check"
    /\ LET alive == thread = "running"
           outcome == search_with_timeout(alive, exception0, result0)
           search == search_duckduckgo(outcome)
           loop == search_duckduckgo_with_retry(search, attempt, max_retries)
       IN  /\ search_log' = Append(search_log,
                                [kind |-> search_kind(alive, exception0),
                                 raised |-> search.raised,
                                 results |-> search.results,
                                 alive |-> alive,
                                 cells |-> [result |-> result0,
                                            exception |-> exception0],
                                 outcome |-> outcome])
           /\ IF loop.returns
              THEN /\ retry_result' = [list |-> loop.results]
                   /\ search_pc' = "returned"
                   /\ UNCHANGED attempt
              ELSE /\ attempt' = attempt + 1
                   /\ search_pc' = "call"
                   /\ UNCHANGED retry_result
    /\ thread' = "none"
    /\ abandoned' = IF thread = "running" THEN abandoned + 1 ELSE abandoned
    /\ UNCHANGED <<plan_vars, agent_vars, stale_results, max_retries, result0,
                   exception0, query, local_insights>>

\* The queries of get_local_insights_duckduckgo: best time to visit,
\* travel tips, must visit.
Queries == 1..3

\* get_local_insights_duckduckgo after a search has returned: the results,
\* if any, become the insight of the query, and the loop goes to the next
\* query or the adapter returns its insights.
InsightCollected ==
    /\ search_pc = "returned"
    /\ local_insights' =
          IF retry_result.list # <<>> THEN local_insights \cup {query}
          ELSE local_insights
    /\ query' = query + 1
    /\ search_pc' = IF query + 1 \in Queries THEN "call" ELSE "done"
    /\ attempt' = 0
    /\ search_log' = <<>>
    /\ retry_result' = None
    /\ UNCHANGED <<plan_vars, agent_vars, stale_results, max_retries, thread,
                   result0, exception0, abandoned>>

\* The cells as one list shared by all calls: a thread left running
\* writes where the call under way reads.
late_write_shared(cell, stale, written) ==
    [cell |-> written, stale |-> stale]

\* result = [None] and exception = [None] are made anew by every call of
\* search_with_timeout, and target() writes to the lists of the call that
\* started it: what a thread left running writes goes to the cells of a
\* call that has returned, and the cell of the call under way stays as it
\* is.
late_write(cell, stale, written) ==
    [cell |-> cell, stale |-> stale \cup {written}]

\* A worker thread that its caller gave up on ends: it writes its result
\* or its exception to the cells of its call, which has returned.
AbandonedWorkerEnds ==
    /\ abandoned > 0
    /\ abandoned' = abandoned - 1
    /\ \/ \E r \in SearchResults :
            /\ result0' = late_write(result0, stale_results, r).cell
            /\ stale_results' = late_write(result0, stale_results, r).stale
            /\ UNCHANGED exception0
       \/ \E e \in SearchErrors :
            /\ exception0' = late_write(exception0, stale_results, e).cell
            /\ stale_results' = late_write(exception0, stale_results, e).stale
            /\ UNCHANGED result0
    /\ UNCHANGED <<plan_vars, agent_vars, search_pc, max_retries, attempt,
                   thread, search_log, retry_result, query, local_insights>>

NextSearch ==
    \/ ThreadStart
    \/ WorkerReturns
    \/ WorkerRaises
    \/ JoinReturns
    \/ SearchReturns
    \/ AbandonedWorkerEnds
    \/ InsightCollected

SpecSearch == InitSearch /\ [][NextSearch]_vars

\* The caller's thread keeps running: it starts the worker, join(timeout)
\* returns after 5 seconds at the latest, and the code after it is
\* straight-line.  Nothing is assumed of the worker thread.
SpecSearchFair ==
    /\ SpecSearch
    /\ WF_vars(ThreadStart)
    /\ WF_vars(JoinReturns)
    /\ WF_vars(SearchReturns)
    /\ WF_vars(InsightCollected)

\* ------------------------------------------- the enhanced planner's graph
\* max_iterations of plan_trip_enhanced: 15 by default, and the handler of
\* the plan button passes none.  The model runs the graph with limits up
\* to this one.
MaxIterations == 4

\* The lists of should_continue.
incomplete_phrases ==
    {"let me search", "i'll look up", "please hold on", "i'll prepare",
     "let me gather", "i need to check", "searching for", "looking up"}
essential_keywords ==
    {"hotel", "attraction", "cost", "weather", "itinerary", "restaurant",
     "budget"}
structure_indicators ==
    {"day 1", "morning", "afternoon", "evening", "dinner", "budget", "cost"}

\* A text is its length and the terms of these lists that occur in it, as
\* they are spelled in it.
Spellings ==
    ("Please hold on" :> "please hold on") @@ ("Hotel" :> "hotel") @@
    ("Attraction" :> "attraction") @@ ("Cost" :> "cost") @@
    ("Budget" :> "budget") @@ ("Day 1" :> "day 1")

\* content.lower(): the terms that occur in the lowered text.
content_lower(content) ==
    {IF t \in DOMAIN Spellings THEN Spellings[t] ELSE t : t \in content.terms}

\* The terms of a complete plan.
PlanTerms == essential_keywords \cup structure_indicators

\* What the LLM may write: nothing, a placeholder in a long text, a plan a
\* character short of 300, the least that passes for complete, a text with
\* three keywords, one with two structure indicators, a plan a character
\* short of 500, a plan of 500 characters.
Contents ==
    {[length |-> 0, terms |-> {}],
     [length |-> 600, terms |-> PlanTerms \cup {"Please hold on"}],
     [length |-> 299, terms |-> PlanTerms],
     [length |-> 300,
      terms |-> {"Hotel", "Attraction", "Cost", "Budget", "Day 1"}],
     [length |-> 300, terms |-> {"hotel", "cost", "budget", "day 1", "morning"}],
     [length |-> 300,
      terms |-> {"hotel", "attraction", "cost", "weather", "day 1"}],
     [length |-> 499, terms |-> PlanTerms],
     [length |-> 500, terms |-> PlanTerms]}

\* The messages: the user's request, what the LLM answers (with so many
\* tool calls), what the tool node answers for a tool call, and the summary
\* prompt.
HumanMessage(content) == [type |-> "human", tool_calls |-> 0, content |-> content]
AIMessage(content, tool_calls) ==
    [type |-> "ai", tool_calls |-> tool_calls, content |-> content]
ToolMessage == [type |-> "tool", tool_calls |-> 0,
                content |-> [length |-> 80, terms |-> {"cost"}]]
user_input == [length |-> 200, terms |-> {"budget"}]
summary_prompt == [length |-> 500, terms |-> {"summary"}]
ToolCalls == 0..1

\* sum(1 for keyword in keywords if keyword in content)
count(keywords, content) == Cardinality({k \in keywords : k \in content})

\* should_continue without its test of the length.
should_continue_any_length(last_message) ==
    LET content == content_lower(last_message.content)
    IN  IF last_message.tool_calls > 0 THEN "tools"
        ELSE IF \E phrase \in incomplete_phrases : phrase \in content
        THEN "tools"
        ELSE IF ~(count(essential_keywords, content) >= 4) THEN "tools"
        ELSE IF ~(count(structure_indicators, content) >= 3) THEN "tools"
        ELSE "__end__"

\* should_continue(state), from the last message of the state.
should_continue(last_message) ==
    LET content == content_lower(last_message.content)
    IN  IF last_message.tool_calls > 0 THEN "tools"
        ELSE IF \E phrase \in incomplete_phrases : phrase \in content
        THEN "tools"
        ELSE IF last_message.content.length < 300 THEN "tools"
        ELSE IF ~(count(essential_keywords, content) >= 4) THEN "tools"
        ELSE IF ~(count(structure_indicators, content) >= 3) THEN "tools"
        ELSE "__end__"

\* The limit that lets one step more through.
recursion_limit_loose(step_count, limit) == step_count < limit + 1

\* config = {"recursion_limit": max_iterations}: the graph may run a
\* step when it has run fewer than the limit.
recursion_limit(step_count, limit) == step_count < limit

\* The final check that never asks for a summary.
final_check_skipped(final_response) == FALSE

\* "Final check - if still incomplete, force a summary"
final_check(final_response) == final_response.length < 500

\* The handler of the plan button calls plan_trip_enhanced: the graph is
\* invoked with the user's message and is about to run its agent node.
InitAgent ==
    /\ city = "Paris"
    /\ start_date = [text |-> "YYYY-MM-DD", day |-> 1]
    /\ end_date = [text |-> "YYYY-MM-DD", day |-> 1]
    /\ num_people = 1
    /\ trip_budget = 100
    /\ currency_code = "EUR"
    /\ pc = "enhanced"
    /\ num_days = 1
    /\ calls = {}
    /\ forecast = None
    /\ exchange_rate = None
    /\ exchange_source = ""
    /\ cost_analysis = None
    /\ daily_costs = None
    /\ data_sources = <<>>
    /\ adjustment_factor = None
    /\ sources_returned = {}
    /\ result = "plan"
    /\ budget_summary = None
    /\ budget_plan = None
    /\ tool_args = None
    /\ tool_result = None
    /\ hotel_search = None
    /\ returned = <<>>
    /\ ui_outputs = <<>>
    /\ rate_lookups = None
    /\ NoWeather
    /\ NoSearch
    /\ agent_pc = "agent"
    /\ max_iterations \in 1..MaxIterations
    /\ steps = 0
    /\ messages = <<HumanMessage(user_input)>>
    /\ llm_calls = 0
    /\ summary_messages = <<>>
    /\ enhanced_return = None

\* The agent node: the LLM is invoked on the messages and its response is
\* added to them, and should_continue picks the next node; or the call
\* raises, and the handler of plan_trip_enhanced takes over.
agent_function ==
    /\ agent_pc = "agent"
    /\ recursion_limit(steps, max_iterations)
    /\ steps' = steps + 1
    /\ llm_calls' = llm_calls + 1
    /\ \/ \E content \in Contents, tool_calls \in ToolCalls :
            /\ messages' = Append(messages, AIMessage(content, tool_calls))
            /\ agent_pc' =
                  IF should_continue(AIMessage(content, tool_calls)) = "tools"
                  THEN "tools" ELSE "end"
       \/ /\ agent_pc' = "fallback"
          /\ UNCHANGED messages
    /\ UNCHANGED <<plan_vars, search_vars, max_iterations, summary_messages,
                   enhanced_return>>

\* The tool node: a tool message for every tool call of the last message,
\* then the edge back to the agent; or the node raises.
tools ==
    /\ agent_pc = "tools"
    /\ recursion_limit(steps, max_iterations)
    /\ steps' = steps + 1
    /\ \/ /\ messages' =
                IF messages[Len(messages)].tool_calls > 0
                THEN Append(messages, ToolMessage) ELSE messages
          /\ agent_pc' = "agent"
       \/ /\ agent_pc' = "fallback"
          /\ UNCHANGED messages
    /\ UNCHANGED <<plan_vars, search_vars, max_iterations, llm_calls,
                   summary_messages, enhanced_return>>

\* The graph has run max_iterations steps and has not ended: invoke raises
\* its recursion error, which the handler of plan_trip_enhanced catches.
recursion_limit_reached ==
    /\ agent_pc \in {"agent", "tools"}
    /\ ~recursion_limit(steps, max_iterations)
    /\ agent_pc' = "fallback"
    /\ UNCHANGED <<plan_vars, search_vars, max_iterations, steps, messages,
                   llm_calls, summary_messages, enhanced_return>>

\* plan_trip_enhanced after the graph has ended: the content of the last
\* message is returned, or, when it is short, the LLM is invoked once on
\* the messages and the summary prompt and the content of its response is
\* returned; when that call raises, the handler takes over.
graph_returns ==
    /\ agent_pc = "end"
    /\ LET final_response == messages[Len(messages)].content
       IN  IF final_check(final_response)
           THEN /\ summary_messages' =
                      Append(messages, HumanMessage(summary_prompt))
                /\ llm_calls' = llm_calls + 1
                /\ \/ \E content \in Contents :
                        /\ enhanced_return' =
                              [content |-> content, from |-> "summary"]
                        /\ agent_pc' = "returned"
                   \/ /\ agent_pc' = "fallback"
                      /\ UNCHANGED enhanced_return
           ELSE /\ enhanced_return' =
                      [content |-> final_response, from |-> "graph"]
                /\ agent_pc' = "returned"
                /\ UNCHANGED <<llm_calls, summary_messages>>
    /\ UNCHANGED <<plan_vars, search_vars, max_iterations, steps, messages>>

\* except Exception: return self._fallback_planning(user_input).  The LLM
\* is invoked on a prompt of its own; when this call raises too, the
\* exception leaves plan_trip_enhanced.
fallback_planning ==
    /\ agent_pc = "fallback"
    /\ llm_calls' = llm_calls + 1
    /\ \/ \E content \in Contents :
            /\ enhanced_return' = [content |-> content, from |-> "fallback"]
            /\ agent_pc' = "returned"
       \/ /\ enhanced_return' = [raised |-> TRUE, from |-> "fallback"]
          /\ agent_pc' = "raised"
    /\ UNCHANGED <<plan_vars, search_vars, max_iterations, steps, messages,
                   summary_messages>>

NextAgent ==
    \/ agent_function
    \/ tools
    \/ recursion_limit_reached
    \/ graph_returns
    \/ fallback_planning

SpecAgent == InitAgent /\ [][NextAgent]_vars

\* Every call of the LLM and of a tool returns or raises, and the thread
\* of the request keeps running.
SpecAgentFair == SpecAgent /\ WF_vars(NextAgent)

\* ======================================================== properties
Planned == pc = "done" /\ result = "plan"
\* The aggregator returned its results (it did not raise).
Aggregated == cost_analysis # None
\* The estimate in use is the one of estimate_daily_costs.
Estimated == cost_analysis = None /\ daily_costs # None
\* The LLM returned nothing, or the object it was asked for.
LlmUsable ==
    /\ Aggregated
    /\ cost_analysis.llm_estimates \in {None, LlmData}
HotelData == cost_analysis.hotel_prices # None
FoodData == cost_analysis.food_costs # None
LlmDataReturned == cost_analysis.llm_estimates # None

\* ---------------------------------------------------------------- C1
WindowInverted ==
    /\ Parses(start_date) /\ Parses(end_date)
    /\ end_date.day < start_date.day
Accepted == pc # "validate" /\ result \notin ValidationMessages

\* C1: a request whose end date precedes its start date is never accepted:
\* it ends with a validation message and no adapter has been called for
\* it; every accepted request has num_days = (end - start).days + 1 >= 1.
C1_WindowValidated ==
    /\ WindowInverted =>
          /\ calls = {}
          /\ pc \in {"validate", "done", "ui_done"}
          /\ pc \in {"done", "ui_done"} => result \in ValidationMessages
    /\ Accepted =>
          /\ num_days = (end_date.day - start_date.day) + 1
          /\ num_days >= 1

C1_Witness ==
    /\ WindowInverted /\ pc = "done" /\ result = MsgWindow /\ calls = {}

\* ---------------------------------------------------------------- C2
\* What "the static per-city table, then the generic default" may stand
\* for: the table's (or default's) rate, that rate per traveller, or the
\* budget-adjusted value of estimate_daily_costs.
StaticRate(category) ==
    IF city_lower(city) \in DOMAIN base_estimates
    THEN base_estimates[city_lower(city)][category]
    ELSE IF category = "accommodation" THEN 100 ELSE 30

\* baseline = (accommodation + food) * numPeople
Baseline == (StaticRate("accommodation") + StaticRate("food")) * num_people

StaticReadings(category, estimated) ==
    {100 * StaticRate(category), 100 * StaticRate(category) * num_people,
     estimate_daily_costs(city, trip_budget, num_days, num_people)[estimated]}

\* C2: the reported accommodation is the first available of live hotel
\* price, LLM estimate, static per-city table, generic default.
C2_AccommodationPrecedence ==
    (Planned /\ LlmUsable) =>
        IF HotelData
        THEN budget_summary.daily_accommodation
                = round2(cost_analysis.hotel_prices.average_price)
        ELSE IF LlmDataReturned
        THEN budget_summary.daily_accommodation
                = round2(cost_analysis.llm_estimates.accommodation_per_night)
        ELSE budget_summary.daily_accommodation
                \in StaticReadings("accommodation", "daily_accommodation")

\* ---------------------------------------------------------------- C3
\* C3: the reported food cost is the first available of restaurant price
\* sampling, LLM estimate, static per-city table, generic default.
C3_FoodPrecedence ==
    (Planned /\ LlmUsable) =>
        IF FoodData
        THEN budget_summary.daily_food
                = round2(QMul(cost_analysis.food_costs.daily_food_cost,
                              QInt(num_people)))
        ELSE IF LlmDataReturned
        THEN budget_summary.daily_food
                = round2(QMul(cost_analysis.llm_estimates.food_per_day,
                              QInt(num_people)))
        ELSE budget_summary.daily_food \in StaticReadings("food", "daily_food")

\* ---------------------------------------------------------------- C4
\* C4: the reported transport cost is the first available of static
\* per-city transport table, LLM estimate, generic default; a city absent
\* from the table gets the LLM estimate when there is one.
C4_TransportPrecedence ==
    (Planned /\ LlmUsable) =>
        IF city_lower(city) \in DOMAIN transport_estimates
        THEN budget_summary.daily_transport
                = 100 * transport_estimates[city_lower(city)] * num_people
        ELSE IF LlmDataReturned
        THEN budget_summary.daily_transport
                \in {round2(cost_analysis.llm_estimates.transport_per_day),
                     round2(QMul(cost_analysis.llm_estimates.transport_per_day,
                                 QInt(num_people)))}
        ELSE budget_summary.daily_transport = 100 * 8 * num_people

\* ---------------------------------------------------------------- C5
\* The live and LLM sources of a category gave nothing usable.
Exhausted(live) ==
    \/ ~Aggregated
    \/ /\ Aggregated
       /\ live = None
       /\ cost_analysis.llm_estimates \in {None, LlmMalformed}

IsAmount(v) == v \in Int /\ v >= 0

\* C5: when every live and LLM source of a category failed or returned
\* nothing, the reported daily cost of that category is still a number
\* and is not negative.
C5_GenericDefaultGuarantee ==
    Planned =>
        /\ Exhausted(cost_analysis.hotel_prices)
              => IsAmount(budget_summary.daily_accommodation)
        /\ Exhausted(cost_analysis.food_costs)
              => IsAmount(budget_summary.daily_food)
        /\ Exhausted(None) => IsAmount(budget_summary.daily_transport)

C5_Witness ==
    /\ Planned /\ Aggregated
    /\ cost_analysis.hotel_prices = None
    /\ cost_analysis.food_costs = None
    /\ cost_analysis.llm_estimates = None
    /\ budget_summary.daily_accommodation = 100 * 100 * num_people

\* ---------------------------------------------------------------- C6
\* C6: in every daily-cost result plan_trip reports, the total per day is
\* the sum of the accommodation, food and transport reported with it.
C6_TotalIsSum ==
    Planned =>
        budget_summary.total_daily
            = budget_summary.daily_accommodation + budget_summary.daily_food
                + budget_summary.daily_transport

\* ---------------------------------------------------------------- C7
AllAdaptersReturned ==
    /\ Aggregated /\ HotelData /\ FoodData
    /\ cost_analysis.llm_estimates = LlmData

CostTags == {"Real hotel prices", "Restaurant price analysis", "LLM research"}
IsCostTag(tag) == tag \in CostTags

\* The tags of the adapters whose estimate was selected for a category.
WinnerTags ==
    (IF HotelData THEN <<"Real hotel prices">> ELSE <<>>)
    \o (IF FoodData THEN <<"Restaurant price analysis">> ELSE <<>>)
    \o (IF LlmDataReturned /\ (~HotelData \/ ~FoodData)
        THEN <<"LLM research">> ELSE <<>>)

\* C7 as stated: when all adapters return data, the cost sources listed are
\* exactly the adapters that won a category; one that won none is absent.
C7_OnlyWinnersListed ==
    (Planned /\ AllAdaptersReturned) =>
        SelectSeq(budget_summary.data_sources, IsCostTag) = WinnerTags

\* The adapter with this tag returned data.
Returned(tag) ==
    \/ tag = "Real hotel prices" /\ HotelData
    \/ tag = "Restaurant price analysis" /\ FoodData
    \/ tag = "LLM research" /\ LlmDataReturned

NoDuplicates(seq) ==
    \A i, j \in 1..Len(seq) : seq[i] = seq[j] => i = j

\* C7 as amended: the list names, in the order hotel, restaurant, LLM, each
\* of these adapters that returned data, selected or not, then the web
\* search tag, without duplicates; with all adapters returning data it is
\* the four tags, "LLM research" among them.
C7_ReturnedSourcesListed ==
    (Planned /\ Aggregated) =>
        /\ budget_summary.data_sources
              = SelectSeq(<<"Real hotel prices", "Restaurant price analysis",
                            "LLM research">>, Returned)
                \o <<"DuckDuckGo real-time search">>
        /\ NoDuplicates(budget_summary.data_sources)
        /\ AllAdaptersReturned =>
              budget_summary.data_sources
                  = <<"Real hotel prices", "Restaurant price analysis",
                      "LLM research", "DuckDuckGo real-time search">>

C7_Witness ==
    /\ Planned /\ AllAdaptersReturned
    /\ "LLM research" \in
          {budget_summary.data_sources[i] :
              i \in 1..Len(budget_summary.data_sources)}

\* ---------------------------------------------------------------- C8
\* The factor of the last call of estimate_daily_costs: 1 when it adjusted
\* nothing.
Factor ==
    IF adjustment_factor.value = None THEN Q(1, 1) ELSE adjustment_factor.value

\* C8: the factor by which estimate_daily_costs multiplies the baselines
\* lies in [0.5, 2.0].
C8_FactorBounded ==
    adjustment_factor # None =>
        /\ Factor.d > 0
        /\ Factor.d <= 2 * Factor.n
        /\ Factor.n <= 2 * Factor.d

C8_Witness ==
    /\ Estimated /\ adjustment_factor # None
    /\ adjustment_factor.value = Q(2, 1)
    /\ trip_budget > 2 * Baseline * num_days

\* ---------------------------------------------------------------- C9
\* The factor of the three-way rule, as the pair <<numerator, denominator>>,
\* with implied = trip_budget / num_days.
RuleFactor ==
    IF 2 * trip_budget > 3 * Baseline * num_days
    THEN IF trip_budget > 2 * Baseline * num_days
         THEN <<2, 1>> ELSE <<trip_budget, Baseline * num_days>>
    ELSE IF 10 * trip_budget < 7 * Baseline * num_days
    THEN IF 2 * trip_budget < Baseline * num_days
         THEN <<1, 2>> ELSE <<trip_budget, Baseline * num_days>>
    ELSE <<1, 1>>

\* The amount rate * numPeople * RuleFactor in cents, a tie to the even cent.
RuleCents(rate) ==
    LET num == 100 * rate * num_people * RuleFactor[1]
        den == RuleFactor[2]
        q == num \div den
        r == num % den
    IN  IF 2 * r < den THEN q
        ELSE IF 2 * r > den THEN q + 1
        ELSE IF q % 2 = 0 THEN q ELSE q + 1

\* C9: estimate_daily_costs follows the three-way rule, and scales
\* accommodation and food by the same factor.
C9_ThreeWayRule ==
    Estimated =>
        /\ daily_costs.daily_accommodation
              = RuleCents(StaticRate("accommodation"))
        /\ daily_costs.daily_food = RuleCents(StaticRate("food"))
        /\ Factor.n * RuleFactor[2] = RuleFactor[1] * Factor.d

C9_Witness ==
    /\ Estimated /\ pc = "done"
    /\ adjustment_factor.value # None
    /\ adjustment_factor.value \notin {Q(1, 2), Q(2, 1)}
    /\ 10 * trip_budget < 7 * Baseline * num_days

\* ---------------------------------------------------------------- C10
ParisRequest ==
    /\ city = "Paris" /\ trip_budget = 1000 /\ num_days = 5 /\ num_people = 2

NothingReturned ==
    /\ Aggregated
    /\ cost_analysis.hotel_prices = None
    /\ cost_analysis.food_costs = None
    /\ cost_analysis.llm_estimates = None

\* C10 as stated: Paris, 1000, 5 days, 2 people, no live or LLM source:
\* accommodation 140, food 45, total per day 185.
C10_ParisScenario ==
    (Planned /\ ParisRequest /\ (NothingReturned \/ Estimated)) =>
        /\ budget_summary.daily_accommodation = 14000
        /\ budget_summary.daily_food = 4500
        /\ budget_summary.total_daily = 18500

\* C10 as amended: for that request estimate_daily_costs scales by
\* 200/370 and gives accommodation 151.35, food 48.65, total 200.00, which
\* is what the request reports when the aggregator raised; when every live
\* and LLM source returned nothing the request reports the aggregator's
\* defaults 200, 60 and 16, total 276.
C10_ParisEstimate ==
    (Planned /\ ParisRequest) =>
        /\ Estimated =>
              /\ Factor.n * 37 = 20 * Factor.d
              /\ budget_summary.daily_accommodation = 15135
              /\ budget_summary.daily_food = 4865
              /\ budget_summary.total_daily = 20000
        /\ NothingReturned =>
              /\ budget_summary.daily_accommodation = 20000
              /\ budget_summary.daily_food = 6000
              /\ budget_summary.daily_transport = 1600
              /\ budget_summary.total_daily = 27600

C10_Witness ==
    /\ Planned /\ ParisRequest /\ Estimated
    /\ budget_summary.total_daily = 20000

\* ---------------------------------------------------------------- C11
CasePairs ==
    {<<"A", "a">>, <<"I", "i">>, <<"P", "p">>, <<"R", "r">>, <<"S", "s">>}
SameLetter(x, y) == x = y \/ <<x, y>> \in CasePairs

\* The text c is the key, up to the case of its letters and to blanks
\* before and after it.
Spells(c, key) ==
    /\ key \in DOMAIN Characters
    /\ LET t == Characters[c]
           k == Characters[key]
       IN  \E a \in 0..Len(t) :
               /\ a + Len(k) <= Len(t)
               /\ \A i \in 1..Len(t) :
                      IF i <= a \/ i > a + Len(k) THEN t[i] = " "
                      ELSE SameLetter(t[i], k[i - a])

InTable == \E key \in DOMAIN base_estimates : Spells(city, key)

\* The per-person rate of the static baseline for the city of the request.
TableRate(category) ==
    IF InTable
    THEN base_estimates[CHOOSE key \in DOMAIN base_estimates :
                            Spells(city, key)][category]
    ELSE IF category = "accommodation" THEN 100 ELSE 30

\* C11: the static lookup ignores the case of the city name and the blanks
\* around it, and a city absent from the table gets accommodation 100 and
\* food 30 per person per day: for one traveller and no adjustment, 100.00
\* and 30.00.
C11_StaticLookup ==
    Estimated =>
        /\ daily_costs.city_known = InTable
        /\ daily_costs.daily_accommodation
              = round2(QMul(QInt(TableRate("accommodation") * num_people),
                            Factor))
        /\ daily_costs.daily_food
              = round2(QMul(QInt(TableRate("food") * num_people), Factor))
        /\ (~InTable /\ num_people = 1 /\ adjustment_factor.value = None) =>
              /\ daily_costs.daily_accommodation = 10000
              /\ daily_costs.daily_food = 3000

C11_Witness ==
    /\ Estimated /\ pc = "done"
    /\ city = " PARIS "
    /\ daily_costs.city_known
    /\ adjustment_factor.value = None
    /\ daily_costs.daily_accommodation = 14000 * num_people

\* ---------------------------------------------------------------- C12
\* The reported costs are those of estimate_daily_costs, multiplied by a
\* budget factor.
BudgetAdjusted == Estimated /\ adjustment_factor.value # None

\* C12: when a live or LLM source returned data the reported costs are not
\* budget-adjusted, and when none did the reported accommodation and food
\* are the static baselines, adjusted to the budget or not.
C12_AdjustmentOnlyWithoutSources ==
    Planned =>
        /\ sources_returned # {} => ~BudgetAdjusted
        /\ sources_returned = {} =>
              /\ budget_summary.daily_accommodation
                    \in StaticReadings("accommodation", "daily_accommodation")
              /\ budget_summary.daily_food
                    \in StaticReadings("food", "daily_food")

\* ---------------------------------------------------------------- C13
\* The amounts, in dollars, are these shares of the total, and add up to it.
FixedSplit(total, accommodation, food, travel, leisure) ==
    /\ 2 * accommodation.n * total.d = total.n * accommodation.d
    /\ 5 * food.n * total.d = total.n * food.d
    /\ 10 * travel.n * total.d = total.n * travel.d
    /\ 5 * leisure.n * total.d = total.n * leisure.d
    /\ QAdd(QAdd(accommodation, food), QAdd(travel, leisure)) = total

Cents(c) == Q(c, 100)
\* The amount printed with two decimals is within half a cent of x.
Printed(c, x) ==
    /\ ~QLess(QAdd(Cents(c), Q(1, 200)), x)
    /\ ~QLess(x, QAdd(Cents(c), Q(-1, 200)))

HotelRequestSent ==
    /\ hotel_search # None
    /\ hotel_search.hotel_options = <<"name - price">>

\* C14: perNightBudget is the accommodation allocation divided by numDays
\* (half of the budget per day), the band passed to the hotel search is
\* [0.9 * perNightBudget, 1.1 * perNightBudget], it satisfies
\* 0 < lower < upper, and a hotel request that is sent carries it as its
\* price filter.
C14_PriceBand ==
    /\ budget_plan # None =>
          LET p == budget_plan.per_night_budget
              lo == budget_plan.lower_bound
              hi == budget_plan.upper_bound
          IN  /\ QMul(p, QInt(num_days)) = budget_plan.accommodation_budget
              /\ 2 * p.n * num_days = trip_budget * p.d
              /\ 10 * lo.n * p.d = 9 * p.n * lo.d
              /\ 10 * hi.n * p.d = 11 * p.n * hi.d
              /\ 0 < lo.n /\ lo.n * hi.d < hi.n * lo.d
    /\ hotel_search # None =>
          /\ hotel_search.min_price = budget_plan.lower_bound
          /\ hotel_search.max_price = budget_plan.upper_bound
          /\ HotelRequestSent =>
                /\ hotel_search.price_filter # None
                /\ hotel_search.price_filter.min_price
                      = (9 * trip_budget) \div (20 * num_days)
                /\ hotel_search.price_filter.max_price
                      = (11 * trip_budget) \div (20 * num_days)

C14_Witness ==
    /\ Planned /\ HotelRequestSent
    /\ trip_budget = 1000 /\ num_days = 3
    /\ hotel_search.price_filter = [min_price |-> 150, max_price |-> 183]

\* ---------------------------------------------------------------- C15
\* The total per day of the daily-cost result in use, in cents.
TotalInUse ==
    IF Aggregated THEN cost_analysis.final_estimates.total_per_day
    ELSE daily_costs.total_daily

\* C15: the verdict is "within budget" exactly when
\* trip_budget / num_days >= the total per day of the daily-cost result in
\* use, which is the total displayed as the estimated daily cost.
C15_Verdict ==
    Planned =>
        /\ budget_summary.total_daily = TotalInUse
        /\ budget_summary.within_budget
              = ~QLess(Q(trip_budget, num_days), Cents(TotalInUse))

C15_Witness ==
    /\ Planned
    /\ Q(trip_budget, num_days) = Cents(TotalInUse)
    /\ budget_summary.within_budget

\* ---------------------------------------------------------------- C16
\* The per-person food rate of the path that produced the daily cost.
FoodRate ==
    IF Estimated THEN QMul(QInt(TableRate("food")), Factor)
    ELSE IF FoodData THEN cost_analysis.food_costs.daily_food_cost
    ELSE IF LlmDataReturned THEN cost_analysis.llm_estimates.food_per_day
    ELSE QInt(30)

TransportRate ==
    IF Estimated THEN 8
    ELSE cost_analysis.transport_costs.daily_transport_cost

\* Food and transport are the per-person rate times num_people.
PerPersonScaled ==
    /\ budget_summary.daily_food = round2(QMul(FoodRate, QInt(num_people)))
    /\ budget_summary.daily_transport = 100 * TransportRate * num_people

\* The accommodation reported, when the static baseline and the generic
\* default count for this many units.
AccommodationFor(units) ==
    IF Estimated
    THEN round2(QMul(QInt(TableRate("accommodation") * units), Factor))
    ELSE IF HotelData THEN round2(cost_analysis.hotel_prices.average_price)
    ELSE IF LlmDataReturned
    THEN round2(cost_analysis.llm_estimates.accommodation_per_night)
    ELSE 100 * 100 * units

\* C16 as stated: in every path food and transport are the per-person rate
\* times num_people, and accommodation is per room, the same whatever
\* num_people is.
C16_PerRoomAccommodation ==
    Planned =>
        /\ PerPersonScaled
        /\ budget_summary.daily_accommodation = AccommodationFor(1)

\* C16 as amended: food and transport are the per-person rate times
\* num_people; accommodation is per room when it is the live hotel price or
\* the LLM estimate, and a per-person rate times num_people when it is the
\* static baseline or the generic default of 100.
C16_PerPersonFallbacks ==
    Planned =>
        /\ PerPersonScaled
        /\ budget_summary.daily_accommodation = AccommodationFor(num_people)

C16_Witness ==
    /\ Planned /\ NothingReturned
    /\ num_people = 2
    /\ budget_summary.daily_accommodation = 20000
    /\ budget_summary.daily_food = 6000

\* ---------------------------------------------------------------- C17
IsStrings(values, length) ==
    /\ Len(values) = length
    /\ \A i \in 1..length : values[i] \in STRING

HotelErrorShown ==
    returned[3] = "Real-Time Hotel Options: Error fetching hotel data: ..."

\* C18 as stated: no failure of an external source is surfaced to the
\* caller of plan_trip: the plan is produced without it, and the only
\* error outputs are the validation messages.
C18_FailuresAbsorbed ==
    pc = "done" =>
        /\ result \in ValidationMessages \cup {"plan"}
        /\ Planned => ~HotelErrorShown

\* Every output of the plan is there.
PlanComplete ==
    /\ forecast # None /\ exchange_rate # None
    /\ daily_costs # None /\ budget_summary # None
    /\ IsStrings(returned, 6)
    /\ \A i \in 1..5 : returned[i] # ""

\* C18 as amended: the failures of the weather, exchange-rate, cost and
\* web-search sources are absorbed and the plan is produced in full; a
\* failure of the hotel search is shown as an error line of the hotel text
\* of that plan; an exception of the itinerary call ends the request with
\* "Error planning trip: ..." and five empty outputs, before any cost
\* source is called.  plan_trip returns no other error output than these
\* and the validation messages.
C18_FailuresSurfaced ==
    pc = "done" =>
        /\ result \in ValidationMessages \cup {MsgError, "plan"}
        /\ result = MsgError =>
              /\ returned = <<MsgError, "", "", "", "", "">>
              /\ "orchestrate_itinerary" \in calls
              /\ calls \cap (CostAdapters \cup {"get_tripadvisor_hotels"}) = {}
        /\ Planned =>
              /\ PlanComplete
              /\ HotelErrorShown = hotel_search.raised

C18_Witness ==
    /\ Planned /\ PlanComplete
    /\ exchange_source = "Fallback estimate"
    /\ sources_returned = {}
    /\ hotel_search.raised /\ HotelErrorShown

\* ---------------------------------------------------------------- C19
\* The category's value is the generic default of the aggregator.
GenericDefault(live) ==
    /\ Aggregated
    /\ live = None
    /\ cost_analysis.llm_estimates = None

\* The tags of sources that returned data.
LiveTags == CostTags \cup {"DuckDuckGo real-time search"}

\* A tag of the list says that an estimate is a default or a fallback.
DefaultTagged ==
    \E i \in 1..Len(budget_summary.data_sources) :
        budget_summary.data_sources[i] \notin LiveTags

\* C19: when the accommodation or the food value is the generic default,
\* the data sources reported with the estimate carry a tag that says so.
C19_DefaultsTagged ==
    Planned =>
        /\ GenericDefault(cost_analysis.hotel_prices) => DefaultTagged
        /\ GenericDefault(cost_analysis.food_costs) => DefaultTagged

\* ---------------------------------------------------------------- C20
\* C20: a search that runs over its timeout is treated as one that failed:
\* search_duckduckgo returns the empty list in both cases and raises in
\* neither, and the caller's request goes on to a list of results.
C20_TimeoutAsFailure ==
    /\ \A i \in 1..Len(search_log) :
          search_log[i].kind \in {"timeout", "error"} =>
              /\ ~search_log[i].raised
              /\ search_log[i].results = <<>>
    /\ search_pc \in {"idle", "call", "join", "check", "returned", "done"}
    /\ search_pc = "returned" =>
          /\ retry_result # None
          /\ \A i \in 1..Len(search_log) : ~search_log[i].raised
    /\ search_pc = "done" <=> query \notin Queries

C20_Witness ==
    /\ search_pc = "returned"
    /\ query = 3 /\ local_insights = {2}
    /\ Len(search_log) = 2
    /\ search_log[1].kind = "timeout" /\ search_log[1].results = <<>>
    /\ search_log[2].kind = "error" /\ search_log[2].results = <<>>
    /\ retry_result = [list |-> <<>>]

\* ---------------------------------------------------------------- C21
\* The attempts of the call of search_duckduckgo_with_retry under way that
\* gave a non-empty list.
NonEmptyAttempts ==
    {i \in 1..Len(search_log) :
        ~search_log[i].raised /\ search_log[i].results # <<>>}

\* The call never makes more than max_retries + 1 attempts, and when it has
\* returned, it returned the list of the first non-empty attempt, which was
\* its last, or [] after max_retries + 1 attempts without one.
RetryBounded ==
    /\ attempt <= max_retries
    /\ Len(search_log) <= max_retries + 1
    /\ max_retries <= 1 => Len(search_log) <= 2
    /\ search_pc \in {"call", "join", "check"} =>
          /\ Len(search_log) = attempt
          /\ NonEmptyAttempts = {}
    /\ search_pc = "returned" =>
          /\ retry_result # None
          /\ Len(search_log) = attempt + 1
          /\ IF NonEmptyAttempts # {}
             THEN /\ NonEmptyAttempts = {Len(search_log)}
                  /\ retry_result.list = search_log[Len(search_log)].results
             ELSE /\ Len(search_log) = max_retries + 1
                  /\ retry_result.list = <<>>

\* A call is being made, and a call has returned to its caller.
RetryCalled == search_pc = "call" /\ attempt = 0
RetryReturned == search_pc \in {"returned", "done"}

\* C21: search_duckduckgo_with_retry makes at most max_retries + 1 search
\* attempts (two with the default max_retries = 1), returns the first
\* non-empty result as soon as an attempt yields one, returns [] when every
\* attempt is empty or fails, never raises, and every call of it returns.
C21_RetryTerminates == []RetryBounded /\ (RetryCalled ~> RetryReturned)

C21_Witness ==
    /\ search_pc = "returned"
    /\ max_retries = 1
    /\ Len(search_log) = 2
    /\ search_log[1].results = <<>>
    /\ search_log[2].results = <<"result">>
    /\ retry_result = [list |-> <<"result">>]

\* ---------------------------------------------------------------- C22
\* The final estimates as get_comprehensive_cost_analysis constructed
\* them, before it handed its results to the web-search enhancement: the
\* category values, the totals and the sources tracked, from the adapters'
\* outcomes it keeps beside them.
ConstructedEstimates ==
    LET acc == accommodation_cost(cost_analysis.hotel_prices,
                                  cost_analysis.llm_estimates, num_people)
        food == food_cost(cost_analysis.food_costs,
                          cost_analysis.llm_estimates, num_people)
        transport == transport_cost(cost_analysis.transport_costs,
                                    cost_analysis.llm_estimates, num_people)
        total_daily == QAdd(QAdd(acc, food), transport)
    IN  [accommodation_per_night |-> round2(acc),
         food_per_day |-> round2(food),
         transport_per_day |-> round2(transport),
         total_per_day |-> round2(total_daily),
         total_trip_cost |-> round2(QMul(total_daily, QInt(num_days))),
         data_sources |-> tracked_sources(cost_analysis.hotel_prices,
                                          cost_analysis.food_costs,
                                          cost_analysis.llm_estimates)]

\* C22: once get_comprehensive_cost_analysis has constructed the final
\* estimates of a request, no later step of the request changes a field of
\* that object: the object plan_trip reads is as it was constructed.
C22_EstimatesNeverMutated ==
    Aggregated =>
        /\ cost_analysis.final_estimates = ConstructedEstimates
        /\ daily_costs = ConstructedEstimates
        /\ data_sources = ConstructedEstimates.data_sources

\* ---------------------------------------------------------------- C23
\* The values the live source of a category can make available: the
\* average hotel price, and the sampled daily food cost for the party.
HotelValues == {round2(h.average_price) : h \in HotelOutcomes \ {None}}
FoodValues ==
    {round2(QMul(get_food_costs_api(p).daily_food_cost, QInt(num_people))) :
        p \in {q \in PlacesOutcomes : get_food_costs_api(q) # None}}

\* C23: the value selected for a cost category depends on that category's
\* own sources alone: the hotel price that get_hotel_prices_api returned is
\* the accommodation reported, and the food cost that get_food_costs_api
\* returned is the food reported, whatever the sources of the other
\* categories did.
C23_CategoriesIndependent ==
    Planned =>
        /\ "get_hotel_prices_api" \in sources_returned =>
              budget_summary.daily_accommodation \in HotelValues
        /\ "get_food_costs_api" \in sources_returned =>
              budget_summary.daily_food \in FoodValues

\* ---------------------------------------------------------------- C24
\* The graph never runs more steps than max_iterations, and the LLM is
\* invoked at most once in a step, once for a summary and once by the
\* fallback.
StepsBounded ==
    /\ steps <= max_iterations
    /\ llm_calls <= steps + 2
    /\ agent_pc \in {"idle", "agent", "tools", "end", "fallback", "returned",
                      "raised"}

\* The limit is hit: the graph has run max_iterations steps and a node is
\* still to run.
LimitHit == agent_pc \in {"agent", "tools"} /\ steps = max_iterations

\* What plan_trip_enhanced ends with is what _fallback_planning ended with.
FromFallback == enhanced_return # None => enhanced_return.from = "fallback"

\* A step of the graph leads to another node or to the end, or it raises
\* and the fallback is next; at the limit only the fallback is next.
StepOrFallback ==
    /\ agent_pc \in {"agent", "tools"} =>
          \/ agent_pc' = "fallback" /\ steps' \in {steps, steps + 1}
          \/ agent_pc' \in {"agent", "tools", "end"} /\ steps' = steps + 1
    /\ LimitHit => agent_pc' = "fallback"
    /\ agent_pc = "fallback" => agent_pc' \in {"returned", "raised"}

EnhancedEnded == agent_pc \in {"returned", "raised"}

Mentions(content, term) ==
    \E t \in content.terms :
        t = term \/ (t \in DOMAIN Spellings /\ Spellings[t] = term)

\* The message passes for a complete plan.
LooksComplete(message) ==
    /\ message.type = "ai"
    /\ message.tool_calls = 0
    /\ \A phrase \in incomplete_phrases : ~Mentions(message.content, phrase)
    /\ message.content.length >= 300
    /\ Cardinality({k \in essential_keywords :
                        Mentions(message.content, k)}) >= 4
    /\ Cardinality({k \in structure_indicators :
                        Mentions(message.content, k)}) >= 3

LastMessage == messages[Len(messages)]

\* The graph has ended, and plan_trip_enhanced has gone on from its end.
GraphEnded ==
    \/ agent_pc = "end"
    \/ enhanced_return # None /\ enhanced_return.from \in {"graph", "summary"}

\* The agent's message decides the node: the end for a message that looks
\* complete, the tool node for any other.
RoutedByMessage ==
    /\ GraphEnded => LooksComplete(LastMessage)
    /\ agent_pc = "tools" =>
          /\ LastMessage.type = "ai"
          /\ ~LooksComplete(LastMessage)

\* From the tool node control goes back to the agent, unless the node
\* raised or the limit was hit; when the message asked for no tool, the
\* agent runs on the messages it ran on before.
ToolsThenAgent ==
    (agent_pc = "tools" /\ agent_pc' # "fallback") =>
        /\ agent_pc' = "agent"
        /\ LastMessage.tool_calls = 0 => messages' = messages
        /\ LastMessage.tool_calls > 0 =>
              messages' = Append(messages, ToolMessage)

\* C25: the graph ends only from an agent message without tool calls and
\* without an incomplete phrase, of 300 characters or more, with 4 of the
\* essential keywords and 3 of the structure indicators; any other message
\* leads to the tool node and back to the agent, and when it asked for no
\* tool the agent is invoked again on the same messages.
C25_EndOnlyWhenComplete == []RoutedByMessage /\ [][ToolsThenAgent]_vars

C25_Witness ==
    /\ agent_pc = "agent"
    /\ steps = 2
    /\ Len(messages) = 2
    /\ LastMessage.type = "ai" /\ LastMessage.tool_calls = 0
    /\ LastMessage.content.length = 300

\* ---------------------------------------------------------------- C26
\* The calls of the LLM that the agent node made and that returned.
AgentCalls == Cardinality({i \in 1..Len(messages) : messages[i].type = "ai"})

\* What plan_trip_enhanced returns after the graph has ended.
ReturnsAfterEnd ==
    /\ (enhanced_return # None /\ enhanced_return.from = "graph") =>
          /\ LastMessage.content.length >= 500
          /\ enhanced_return.content = LastMessage.content
          /\ summary_messages = <<>>
          /\ llm_calls = AgentCalls
    /\ (enhanced_return # None /\ enhanced_return.from = "summary") =>
          /\ LastMessage.content.length < 500
          /\ summary_messages = Append(messages, HumanMessage(summary_prompt))
          /\ enhanced_return.content \in Contents
          /\ llm_calls = AgentCalls + 1
    /\ summary_messages # <<>> => LastMessage.content.length < 500

\* After the end of the graph no node runs again: the call returns, or the
\* summary call raised and the fallback is next.
NoReentry ==
    agent_pc = "end" =>
        /\ agent_pc' \in {"returned", "fallback"}
        /\ messages' = messages
        /\ steps' = steps
        /\ llm_calls' \in {llm_calls, llm_calls + 1}

\* C26: after the graph has ended, plan_trip_enhanced returns the content
\* of the last message as it is when it has 500 characters or more, and
\* otherwise invokes the LLM once more, on the messages and the summary
\* prompt, and returns the content of that response without running the
\* graph again.
C26_SummaryOnce == []ReturnsAfterEnd /\ [][NoReentry]_vars

C26_Witness ==
    /\ agent_pc = "returned"
    /\ enhanced_return.from = "summary"
    /\ LastMessage.content.length = 499
    /\ enhanced_return.content.length = 299
    /\ llm_calls = 2

\* ---------------------------------------------------------------- C27
\* What a call of search_with_timeout came to, against the state of its
\* worker when the caller looked: None for a worker still running, whose
\* cells are empty; for a worker that finished, the result it wrote, or
\* the exception it wrote, raised again.
TimeoutOutcome(call) ==
    /\ call.outcome = [raised |-> FALSE, value |-> None] <=> call.alive
    /\ call.alive => call.cells = [result |-> None, exception |-> None]
    /\ ~call.alive =>
          \/ /\ call.cells.result \in SearchResults
             /\ call.cells.exception = None
             /\ call.outcome = [raised |-> FALSE, value |-> call.cells.result]
          \/ /\ call.cells.exception \in SearchErrors
             /\ call.cells.result = None
             /\ call.outcome = [raised |-> TRUE, value |-> call.cells.exception]

TimeoutOutcomes ==
    /\ \A i \in 1..Len(search_log) : TimeoutOutcome(search_log[i])
    /\ thread = "running" => result0 = None /\ exception0 = None
    /\ thread = "finished" =>
          (result0 \in SearchResults) # (exception0 \in SearchErrors)

\* A thread left running by a timeout ends: nothing that a caller was
\* given, holds or will read changes.
LateWorkerHarmless ==
    abandoned' < abandoned =>
        UNCHANGED <<search_pc, attempt, thread, result0, exception0,
                    search_log, retry_result, query, local_insights>>

\* C27: search_with_timeout returns None exactly when its worker thread is
\* still running when the caller looks at it after the wait; for a worker
\* that has finished it returns the worker's result or raises the worker's
\* exception again; and a worker that ends after its call has returned None
\* changes neither that value nor anything a later call reads, however the
\* worker and the caller interleave.
C27_TimeoutReturn == []TimeoutOutcomes /\ [][LateWorkerHarmless]_vars

C27_Witness ==
    /\ search_pc = "check"
    /\ attempt = 1
    /\ search_log[1].alive /\ search_log[1].outcome.value = None
    /\ thread = "finished" /\ result0 = [list |-> <<>>]
    /\ abandoned = 0
    /\ stale_results = {[list |-> <<"result">>]}

\* ------------------------------------------------------------------ C28
\* What the chain of plan_trip came to, once it has run: the search was
\* asked first and the API only when the search found no rate; the rate is
\* the search's with the label of the search, or else the API's with the
\* label of the API, or else the rate of the table for the upper-cased
\* code, 1.0 for a code the table does not have, with the label of the
\* fallback.
SuppliedBySearch ==
    /\ truthy(rate_lookups.duckduckgo_rate)
    /\ ~rate_lookups.api_called
    /\ exchange_rate = rate_lookups.duckduckgo_rate
    /\ exchange_source = "DuckDuckGo real-time search"
SuppliedByApi ==
    /\ ~truthy(rate_lookups.duckduckgo_rate)
    /\ rate_lookups.api_called
    /\ rate_lookups.api_rate # None
    /\ exchange_rate = rate_lookups.api_rate
    /\ exchange_source = "Exchange Rate API"
SuppliedByTable ==
    /\ ~truthy(rate_lookups.duckduckgo_rate)
    /\ rate_lookups.api_called
    /\ rate_lookups.api_rate = None
    /\ exchange_rate =
           (IF upper(currency_code) \in DOMAIN fallback_table
            THEN fallback_table[upper(currency_code)] ELSE Q(1, 1))
    /\ exchange_source = "Fallback estimate"

\* C28: in plan_trip the exchange rate is resolved in the order search,
\* API, table of major currencies, 1.0; after the chain the rate is never
\* None, so plan_trip never returns "Could not fetch exchange rate", and
\* the source label names the step that supplied the rate.
C28_ExchangeChain ==
    /\ pc = "exchange" => rate_lookups = None
    /\ pc # "exchange" =>
           /\ rate_lookups # None
           /\ exchange_rate # None
           /\ SuppliedBySearch \/ SuppliedByApi \/ SuppliedByTable
    /\ result # MsgRate
    /\ returned # error_return(MsgRate)
    /\ pc # "done"

\* Neither online source gave a rate for "eur": the rate of the table for
\* EUR goes on to the budget calculation, as a fallback estimate.
C28_Witness ==
    /\ pc = "budget"
    /\ currency_code = "eur"
    /\ rate_lookups = [duckduckgo_rate |-> Q(0, 1), api_called |-> TRUE,
                       api_rate |-> None]
    /\ exchange_rate = Q(92, 100)
    /\ exchange_source = "Fallback estimate"

\* ------------------------------------------------------------------ C29
\* The lines of the section that carry a date, and the dates of the trip.
DateLines == SelectSeq(weather_info, LAMBDA line : "date" \in DOMAIN line)
TripDates == [i \in 1..num_days |-> (start_date.day + i) - 1]

\* One line for each date of the trip, in order, and no other dated line.
OneLinePerDate ==
    /\ Len(DateLines) = num_days
    /\ \A i \in 1..num_days : DateLines[i].date = TripDates[i]

\* Both loops stay inside the window, and the section has the lines of
\* the dates passed so far.
LoopsBounded ==
    /\ pc \in {"fallback_loop", "format_loop"} =>
           /\ start_date.day <= current_date
           /\ current_date <= end_date.day + 1
    /\ pc = "format_loop" => Len(DateLines) = current_date - start_date.day

\* C29: for every accepted trip window the weather section of plan_trip has
\* exactly one line for each date from the start date to the end date,
\* whatever the forecast adapter returned and whichever dates it covers,
\* and the date loops that build it terminate with the section built.
C29_OneLinePerDate ==
    /\ [](pc = "weather_done" => OneLinePerDate)
    /\ <>(pc = "weather_done")

\* What holds: the loops end in every window; the section is built, with
\* one line for each date, in every window that ends before date.max; a
\* window that ends on date.max ends in plan_trip's error return.
WeatherSectionBeforeDateMax ==
    /\ []LoopsBounded
    /\ [](pc = "weather_done" => OneLinePerDate)
    /\ <>(pc \in {"weather_done", "done"})
    /\ end_date.day < DateMax => <>(pc = "weather_done")
    /\ end_date.day = DateMax => <>(pc = "done" /\ returned = error_return(MsgError))

\* A window of two days ending on date.max, the provider covering its
\* first day: the section has the line of the first day and that of the
\* last, and plan_trip returns its error text.
WeatherOverflowReached ==
    /\ pc = "done"
    /\ end_date.day = DateMax
    /\ num_days = 2
    /\ forecast_days = 1
    /\ Len(DateLines) = 2
    /\ returned = error_return(MsgError)

\* A window of three days whose dates have no forecast: three dated lines
\* and the two notes.
WeatherSectionReached ==
    /\ pc = "weather_done"
    /\ num_days = 3
    /\ forecast_days = 0
    /\ OneLinePerDate
    /\ Len(weather_info) = Len(WeatherHeader) + 3 + Len(WeatherNotes)

\* ------------------------------------------------------------------ C30
\* Where the budget per day, trip_budget / num_days, lies against the
\* baseline daily total, in whole numbers.
InScaledRange ==
    \/ /\ Baseline * num_days <= 2 * trip_budget
       /\ 10 * trip_budget < 7 * Baseline * num_days
    \/ /\ 3 * Baseline * num_days < 2 * trip_budget
       /\ trip_budget <= 2 * Baseline * num_days
BelowHalf == 2 * trip_budget < Baseline * num_days
AboveDouble == trip_budget > 2 * Baseline * num_days

\* The locals of the call that has returned.
Locals == adjustment_factor

\* The float x is the number p / q.
FloatIs(x, p, q) == MulBits(x.m, q) = Zeros(-x.e) \o NatBits(p)

\* The floats x and y are at most k units in the last place of y apart.
WithinUlps(x, y, k) ==
    LET e == IF x.e < y.e THEN x.e ELSE y.e
        unit == BitsNat(Zeros(y.e - e) \o <<1>>)
    IN  \E d \in 0..(k * unit) :
            \/ AddBits(Aligned(x, e), NatBits(d)) = Aligned(y, e)
            \/ AddBits(Aligned(y, e), NatBits(d)) = Aligned(x, e)

\* The adjusted accommodation plus the adjusted food in exact arithmetic.
RealTotal ==
    LET factor == adjustment(Q(trip_budget, num_days), Baseline)
    IN  QAdd(scaled(StaticRate("accommodation") * num_people, factor),
             scaled(StaticRate("food") * num_people, factor))

\* Outside [0.5, 2.0] times the baseline the adjusted total is 0.5 or 2.0
\* times the baseline, in floats as in exact arithmetic.
CappedTotalExact ==
    /\ BelowHalf =>
           /\ FloatIs(Locals.total, Baseline, 2)
           /\ RealTotal = Q(Baseline, 2)
    /\ AboveDouble =>
           /\ FloatIs(Locals.total, 2 * Baseline, 1)
           /\ RealTotal = Q(2 * Baseline, 1)

\* C30: in estimate_daily_costs, whenever the budget per day lies in
\* [0.5, 0.7) or in (1.5, 2.0] times the baseline daily total, the adjusted
\* accommodation plus the adjusted food, before rounding, equals the budget
\* per day exactly; outside [0.5, 2.0] times the baseline the adjusted
\* total is exactly 0.5 or 2.0 times the baseline.
C30_AdjustedTotalExact ==
    pc = "estimated" =>
        /\ InScaledRange => Locals.total = Locals.budget_per_day
        /\ CappedTotalExact

\* C30 as amended: in those ranges the sum equals the budget per day in
\* exact arithmetic, and in the floats of the program it is at most 2
\* units in the last place away from it; the capped totals are exact.
C30_AdjustedTotalNear ==
    pc = "estimated" =>
        /\ InScaledRange =>
               /\ RealTotal = Q(trip_budget, num_days)
               /\ WithinUlps(Locals.total, Locals.budget_per_day, 2)
        /\ CappedTotalExact

\* An unknown city, one traveller, 1000 for five days: 200 a day against a
\* baseline of 130; the sum of the two adjusted amounts is the float next
\* above 200.0, and the total returned is 200.00.
C30_Witness ==
    /\ pc = "estimated"
    /\ city = "Atlantis" /\ num_people = 1
    /\ trip_budget = 1000 /\ num_days = 5
    /\ InScaledRange
    /\ FloatIs(Locals.budget_per_day, 200, 1)
    /\ Locals.total # Locals.budget_per_day
    /\ FloatLess(Locals.budget_per_day, Locals.total)
    /\ daily_costs.total_daily = 20000

====
